---- MODULE Spec2Model ----
(***************************************************************************)
(* Payout transaction lifecycle of Nopass0/p2p: the HTTP create handler,   *)
(* its expiry timer, and the Telegram bot's accept / proof-upload / cancel *)
(* handlers, each split at its await points, over the Prisma store.        *)
(***************************************************************************)
EXTENDS Integers, Sequences, FiniteSets, TLC

\* ------------------------------------------------------------------ bounds
\* Number of POST /payout/create calls the model follows.
MaxCalls == 2
\* Number of handlers (create calls, bot handlers, expiry callbacks) under
\* way at once.
MaxInFlight == 3

\* Number of photo messages of one user handled at once.
MaxUploads == 2

\* Number of updateRates calls under way at once: setInterval starts a call
\* whether or not the one before it has returned.
MaxCycles == 2

\* ------------------------------------------------------- program constants
MIN_PAYOUT_AMOUNT == 100
MAX_PAYOUT_AMOUNT == 1000000

\* Telegram users that talk to the bot.
Users == {"op1", "op2", "guest"}

\* The first 11 characters of a generated id ("TX_" and 8 hex digits); two
\* generated ids may share them.
Prefixes == {"TX_aaaaaaaa", "TX_bbbbbbbb"}

\* A full transaction id: its first 11 characters and the rest of the uuid,
\* which is distinct for every call of generateUniqueId.
TxIds == Prefixes \X (1..MaxCalls)

\* Absent values (undefined / null / no row).
NoId == <<"", 0>>
NoUser == "NoUser"
NoReq ==
  [destination |-> "", amount |-> 0, walletId |-> "", expiredTime |-> 0,
   expiredOfferTime |-> 0, callback_url |-> ""]
NoResp == [external_id |-> NoId, status |-> 0, code |-> -1]
NoTx ==
  [status |-> "ABSENT", userId |-> NoUser, destination |-> "", amount |-> 0,
   paymentMethod |-> "", callbackUrl |-> "", expiresAt |-> 0]
\* No POST /payout/status call is in flight.
NoQuery ==
  [clientUniqueId |-> NoId, status |-> 0, amount |-> 0, amountPaid |-> 0,
   reason |-> "", code |-> -1, screenshot |-> NoId]
\* No file name, and no GET /payout/screenshot call in flight.
NoFile == <<-1, NoId>>
NoShot == [filename |-> NoFile, code |-> -1, served |-> FALSE]
NoState ==
  [defined |-> FALSE, awaitingBalance |-> FALSE, awaitingOperatorId |-> FALSE,
   awaitingScreenshot |-> FALSE, currentTransactionId |-> NoId]

TerminalStatuses == {"COMPLETED", "FAILED", "EXPIRED", "CANCELLED"}

\* The closed set of payment methods (values of BANKS).
BANKS ==
  {"sberbank", "tinkoff", "vtb", "alfa", "gazprombank", "interbank",
   "mts_bank", "ozon_bank", "open", "post_bank", "psb", "raiffeisen",
   "rosbank", "rstb", "sbp", "sovkom", "uralsib", "account_number",
   "humo_uzs", "ziraat", "papara", "uz_card", "kapital", "garanti",
   "enpara", "kuveyt", "ininal", "iban"}

\* String.prototype.toLowerCase on the wallet ids the requests carry.
toLowerCase(s) ==
  CASE s = "Tinkoff" -> "tinkoff"
    [] s = "SBERBANK" -> "sberbank"
    [] s = "PayPal" -> "paypal"
    [] OTHER -> s

validateBankId(bankId) == toLowerCase(bankId) \in BANKS

validateAmount(amount) ==
  amount >= MIN_PAYOUT_AMOUNT /\ amount <= MAX_PAYOUT_AMOUNT

\* validateTimes with the strict comparison relaxed.
validateTimes_NonStrict(expiredTime, expiredOfferTime) ==
  /\ expiredTime <= expiredOfferTime
  /\ expiredTime > 0
  /\ expiredOfferTime > 0

validateTimes(expiredTime, expiredOfferTime) ==
  /\ expiredTime < expiredOfferTime
  /\ expiredTime > 0
  /\ expiredOfferTime > 0

\* The three validations of POST /payout/create, in the handler's order.
RequestValid(req) ==
  /\ validateBankId(req.walletId)
  /\ validateAmount(req.amount)
  /\ validateTimes(req.expiredTime, req.expiredOfferTime)

Req(dest, amount, wallet, et, eot, cb) ==
  [destination |-> dest, amount |-> amount, walletId |-> wallet,
   expiredTime |-> et, expiredOfferTime |-> eot, callback_url |-> cb]

\* Request bodies that pass validation.
ValidRequests ==
  { Req("4276123456789012", 100, "sberbank", 1, 2, "http://cb"),
    Req("TR33000610051978", 500, "Tinkoff", 1, 2, ""),
    Req("4276123456780000", 1000000, "sberbank", 1, 2, "http://cb") }

\* Request bodies that fail exactly one validation.
InvalidRequests ==
  { Req("4276123456789012", 99, "sberbank", 1, 2, "http://cb"),
    Req("4276123456789012", 1000001, "sberbank", 1, 2, "http://cb"),
    Req("4276123456789012", 100, "PayPal", 1, 2, "http://cb"),
    Req("4276123456789012", 100, "sberbank", 2, 2, "http://cb"),
    Req("4276123456789012", 100, "sberbank", 3, 2, "http://cb"),
    Req("4276123456789012", 100, "sberbank", 0, 2, "http://cb"),
    Req("4276123456789012", 100, "sberbank", -1, 0, "http://cb") }

Requests == ValidRequests \cup InvalidRequests

\* Request bodies that differ in the last four characters of the
\* destination (digits, digits then letters, letters): three that pass
\* validation and find an operator, one that finds none, one that fails
\* validation.
ButtonRequests ==
  { Req("4276123456789012", 500, "sberbank", 1, 2, ""),
    Req("TR330006100519AB", 500, "sberbank", 1, 2, ""),
    Req("user@wallet", 500, "sberbank", 1, 2, ""),
    Req("user@wallet", 1000000, "sberbank", 1, 2, ""),
    Req("user@wallet", 99, "sberbank", 1, 2, "") }

\* payoutData.transactionId.substring(0, 11)
ShortTxId(id) == id[1]

\* payoutData.destination.slice(-4) on the destinations the requests carry.
shortDestination(destination) ==
  CASE destination = "4276123456789012" -> "9012"
    [] destination = "TR33000610051978" -> "1978"
    [] destination = "4276123456780000" -> "0000"
    [] destination = "TR330006100519AB" -> "19AB"
    [] destination = "user@wallet" -> "llet"
    [] OTHER -> destination

\* The callback data of the accept button:
\* `ap:${shortTxId}:${shortDestination}`.
ButtonData(id, destination) ==
  <<"ap", ShortTxId(id), shortDestination(destination)>>

\* The strings that /(\d+)/ matches at their first character, among the
\* values of shortDestination.
DigitFirst == {"9012", "1978", "0000", "19AB"}

\* bot.action(/ap:([^:]+):(\d+)/): whether the handler takes the callback
\* data.
apMatch(data) == data[1] = "ap" /\ data[2] # "" /\ data[3] \in DigitFirst

\* What the model follows in one run: every interleaving of up to
\* MaxInFlight handlers around a single create call and a single updateRates
\* call; or up to MaxCalls create calls and MaxCycles overlapping updateRates
\* calls with the handlers run one after another; or every interleaving of
\* up to MaxUploads handlers around a single create call, among them up to
\* MaxUploads photo messages of one user. The create calls carry the
\* bodies of Requests.
Scenarios ==
  { [calls |-> 1, inFlight |-> MaxInFlight, cycles |-> 1, uploads |-> 1,
      requests |-> Requests],
    [calls |-> MaxCalls, inFlight |-> 1, cycles |-> MaxCycles, uploads |-> 1,
      requests |-> Requests],
    [calls |-> 1, inFlight |-> MaxUploads, cycles |-> 1,
     uploads |-> MaxUploads, requests |-> Requests] }

\* Runs of one create call, with the handlers one after another, whose
\* body carries one of the destinations of ButtonRequests.
ButtonScenarios ==
  { [calls |-> 1, inFlight |-> 1, cycles |-> 1, uploads |-> 1,
     requests |-> ButtonRequests] }


VARIABLES
  env,                  \* the scenario of this run (never changes)
  users,                \* User rows of the store: isAdmin, balance
  txs,                  \* Transaction rows of the store, by id
  screenshots,          \* Screenshot rows of the store
  calls,                \* the POST /payout/create calls and their position
  timers,               \* the setTimeout expiry callback of each transaction
  transactionMappings,  \* TelegramBot.transactionMappings
  userStates,           \* TelegramBot.userStates
  acc,                  \* each user's "ap:" action handler in flight
  upl,                  \* each user's photo/document handlers in flight
  can,                  \* each user's cancel_action handler in flight
  sent,                 \* sendMessage attempts of dispatch, by <<user, id>>
  buttons,              \* delivered messages that carry an accept button
  callbacks,            \* POSTs attempted to each transaction's callback_url
  accepted,             \* users told "accepted" for each transaction
  qry,                  \* the POST /payout/status call in flight: its response
  logged,               \* logger.error calls: failed sends, POSTs, proof inserts
  files,                \* names of the files in UPLOAD_DIR
  shot,                 \* the GET /payout/screenshot call in flight
  exchangeRates,        \* ExchangeRate rows of the store
  cache,                \* the cache entry "rate:RUB:USDT"
  cycle,                \* the RateService.updateRates calls, by slot
  rateResp,             \* the GET /api/rate call in flight
  rates,                \* the array handed to calculateAccurateRate
  accurateRate,         \* what calculateAccurateRate returned for it
  clock,                \* Math.floor(Date.now() / 1000)
  offer,                \* body.expiredTime and body.expiredOfferTime
  timeout,              \* the delay the armed timer runs with (ms)
  expiredAt             \* the clock at which the timer wrote EXPIRED

\* The variables of the payout lifecycle, of the rate service, and of a
\* call of calculateAccurateRate on its own.
lifeVars ==
  <<env, users, txs, screenshots, calls, timers, transactionMappings, userStates,
    acc, upl, can, sent, buttons, callbacks, accepted, qry, logged,
    files, shot>>
serviceVars == <<exchangeRates, cache, cycle, rateResp>>
medianVars == <<rates, accurateRate>>
rateVars == <<serviceVars, medianVars>>
timeVars == <<clock, offer, timeout, expiredAt>>

vars == <<lifeVars, rateVars, timeVars>>

IdleCall ==
  [pc |-> "idle", req |-> NoReq, id |-> NoId, operators |-> {},
   pending |-> {}, resp |-> NoResp]
IdleHandler ==
  [pc |-> "idle", id |-> NoId, msg |-> NoId, destination |-> "",
   reply |-> "none"]

\* The state after construction: the store holds the operators and no
\* transaction; the bot's maps are empty; nothing is in flight.
LifecycleStart(scenarios) ==
  /\ env \in scenarios
  /\ users = [u \in Users |->
       CASE u = "op1" -> [isAdmin |-> TRUE, balance |-> 500]
         [] u = "op2" -> [isAdmin |-> TRUE, balance |-> 100]
         [] OTHER -> [isAdmin |-> FALSE, balance |-> 1000000]]
  /\ txs = [id \in TxIds |-> NoTx]
  /\ screenshots = {}
  /\ calls = [k \in 1..MaxCalls |-> IdleCall]
  /\ timers = [id \in TxIds |-> "none"]
  /\ transactionMappings = [s \in Prefixes |-> NoId]
  /\ userStates = [u \in Users |-> NoState]
  /\ acc = [u \in Users |-> IdleHandler]
  /\ upl = [u \in Users |-> [n \in 1..MaxUploads |-> IdleHandler]]
  /\ can = [u \in Users |-> IdleHandler]
  /\ sent = [m \in Users \X TxIds |-> 0]
  /\ buttons = {}
  /\ callbacks = [id \in TxIds |-> 0]
  /\ accepted = [id \in TxIds |-> {}]
  /\ qry = NoQuery
  /\ logged = {}
  /\ files = {}
  /\ shot = NoShot

LifecycleInit == LifecycleStart(Scenarios)

\* Handlers under way: create calls, bot handlers, expiry callbacks.
InFlight ==
  Cardinality({k \in 1..MaxCalls : calls[k].pc \in {"inserted", "found"}})
  +   Cardinality({u \in Users : acc[u].pc # "idle"})
  + Cardinality({h \in Users \X (1..MaxUploads) : upl[h[1]][h[2]].pc # "idle"})
  + Cardinality({u \in Users : can[u].pc # "idle"})
  + Cardinality({id \in TxIds : timers[id] = "read"})
  + (IF qry # NoQuery THEN 1 ELSE 0)
  + (IF shot # NoShot THEN 1 ELSE 0)

\* -------------------------------------------------- POST /payout/create
\* Calls are taken in order: call k starts once call k-1 has started.
NextCall(k) ==
  /\ calls[k].pc = "idle"
  /\ k <= env.calls
  /\ InFlight < env.inFlight
  /\ \A j \in 1..(k - 1) : calls[j].pc # "idle"

\* const generateUniqueId = () => `TX_${randomUUID()}`: any first 11
\* characters, and a rest no other call has drawn.
generateUniqueId(k) == {<<p, k>> : p \in Prefixes}

\* Ids are named up to renaming of their first characters: the first id
\* drawn is called TX_aaaaaaaa.
Canonical(k, id) == k = 1 => ShortTxId(id) = "TX_aaaaaaaa"

\* A request that fails validation: 400, external_id "", nothing else.
CreateReject(k, req) ==
  /\ NextCall(k)
  /\ ~RequestValid(req)
  /\ calls' = [calls EXCEPT ![k] =
       [IdleCall EXCEPT !.pc = "done", !.req = req,
         !.resp = [external_id |-> NoId, status |-> 2, code |-> 400]]]
  /\ UNCHANGED <<rateVars, timeVars, shot, files, logged, qry, env, users, txs, screenshots, timers, transactionMappings,
       userStates, acc, upl, can, sent, buttons, callbacks, accepted>>

\* Validation passes; db.transaction.create inserts the PENDING row.
CreateInsert(k, req, id) ==
  /\ NextCall(k)
  /\ RequestValid(req)
  /\ id \in generateUniqueId(k)
  /\ Canonical(k, id)
  /\ txs' = [txs EXCEPT ![id] =
       [status |-> "PENDING", userId |-> NoUser,
        destination |-> req.destination, amount |-> req.amount,
        paymentMethod |-> req.walletId, callbackUrl |-> req.callback_url,
        expiresAt |-> req.expiredOfferTime * 1000]]
  /\ calls' = [calls EXCEPT ![k] =
       [IdleCall EXCEPT !.pc = "inserted", !.req = req, !.id = id]]
  /\ UNCHANGED <<rateVars, timeVars, shot, files, logged, qry, env, users, screenshots, timers, transactionMappings,
       userStates, acc, upl, can, sent, buttons, callbacks, accepted>>

\* EligibleOperators without the balance condition.
EligibleOperators_NoBalance(amount) == {u \in Users : users[u].isAdmin}

\* db.user.findMany({ isAdmin: true, balance: { gte: body.amount } })
EligibleOperators(amount) ==
  {u \in Users : users[u].isAdmin /\ users[u].balance >= amount}

CreateFindOperators(k) ==
  /\ calls[k].pc = "inserted"
  /\ LET ops == EligibleOperators(calls[k].req.amount) IN
       calls' = [calls EXCEPT ![k].pc = "found", ![k].operators = ops,
                              ![k].pending = ops]
  /\ UNCHANGED <<rateVars, timeVars, shot, files, logged, qry, env, users, txs, screenshots, timers, transactionMappings,
       userStates, acc, upl, can, sent, buttons, callbacks, accepted>>

\* CreateNoOperators without the update to FAILED.
CreateNoOperators_NoUpdate(k) ==
  /\ calls[k].pc = "found"
  /\ calls[k].operators = {}
  /\ calls' = [calls EXCEPT ![k].pc = "done",
       ![k].resp = [external_id |-> calls[k].id, status |-> 2, code |-> 503]]
  /\ UNCHANGED <<rateVars, timeVars, shot, files, logged, qry, env, users, txs, screenshots, timers, transactionMappings,
       userStates, acc, upl, can, sent, buttons, callbacks, accepted>>

\* operators.length === 0: update to FAILED, 503 with the id.
CreateNoOperators(k) ==
  /\ calls[k].pc = "found"
  /\ calls[k].operators = {}
  /\ txs' = [txs EXCEPT ![calls[k].id].status = "FAILED"]
  /\ calls' = [calls EXCEPT ![k].pc = "done",
       ![k].resp = [external_id |-> calls[k].id, status |-> 2, code |-> 503]]
  /\ UNCHANGED <<rateVars, timeVars, shot, files, logged, qry, env, users, screenshots, timers, transactionMappings,
       userStates, acc, upl, can, sent, buttons, callbacks, accepted>>

\* The catch of the create handler: the error of the operation that threw
\* is logged and the call is answered 500 with external_id "".
CreateCatch(k, req, id, op) ==
  /\ logged' = logged \cup {<<op, NoUser, id>>}
  /\ calls' = [calls EXCEPT ![k].pc = "done", ![k].req = req, ![k].id = id,
       ![k].pending = {},
       ![k].resp = [external_id |-> NoId, status |-> 2, code |-> 500]]

\* db.transaction.create throws: no row is stored.
CreateInsertFails(k, req) ==
  /\ NextCall(k)
  /\ RequestValid(req)
  /\ CreateCatch(k, req, NoId, "transaction.create")
  /\ UNCHANGED <<rateVars, timeVars, shot, files, qry, env, users, txs, screenshots, timers, transactionMappings,
       userStates, acc, upl, can, sent, buttons, callbacks, accepted>>

\* db.user.findMany throws: the row stays PENDING and no timer is armed.
CreateFindOperatorsFails(k) ==
  /\ calls[k].pc = "inserted"
  /\ CreateCatch(k, calls[k].req, calls[k].id, "user.findMany")
  /\ UNCHANGED <<rateVars, timeVars, shot, files, qry, env, users, txs, screenshots, timers, transactionMappings,
       userStates, acc, upl, can, sent, buttons, callbacks, accepted>>

\* CreateNoOperatorsFails that swallows the error and answers as if the
\* update had been written.
CreateNoOperatorsFails_Swallowed(k) ==
  /\ calls[k].pc = "found"
  /\ calls[k].operators = {}
  /\ logged' = logged \cup {<<"transaction.update", NoUser, calls[k].id>>}
  /\ calls' = [calls EXCEPT ![k].pc = "done",
       ![k].resp = [external_id |-> calls[k].id, status |-> 2, code |-> 503]]
  /\ UNCHANGED <<rateVars, timeVars, shot, files, qry, env, users, txs, screenshots, timers, transactionMappings,
       userStates, acc, upl, can, sent, buttons, callbacks, accepted>>

\* operators.length === 0 and db.transaction.update to FAILED throws: the
\* row stays PENDING.
CreateNoOperatorsFails(k) ==
  /\ calls[k].pc = "found"
  /\ calls[k].operators = {}
  /\ CreateCatch(k, calls[k].req, calls[k].id, "transaction.update")
  /\ UNCHANGED <<rateVars, timeVars, shot, files, qry, env, users, txs, screenshots, timers, transactionMappings,
       userStates, acc, upl, can, sent, buttons, callbacks, accepted>>

CreateFault ==
  \/ \E k \in 1..MaxCalls, req \in env.requests : CreateInsertFails(k, req)
  \/ \E k \in 1..MaxCalls :
       CreateFindOperatorsFails(k) \/ CreateNoOperatorsFails(k)

\* saveTransactionMapping that keeps the full id a short id already has.
saveTransactionMapping_KeepFirst(shortId, fullId) ==
  IF transactionMappings[shortId] = NoId
    THEN [transactionMappings EXCEPT ![shortId] = fullId]
    ELSE transactionMappings

\* this.transactionMappings.set(shortId, fullId)
saveTransactionMapping(shortId, fullId) ==
  [transactionMappings EXCEPT ![shortId] = fullId]

\* CreateNotify in which a failed send ends the create call with the
\* internal error.
CreateNotify_FailAborts(k, u, delivered) ==
  /\ calls[k].pc = "found"
  /\ u \in calls[k].pending
  /\ sent' = [sent EXCEPT ![<<u, calls[k].id>>] = @ + 1]
  /\ IF delivered
       THEN /\ buttons' = buttons \cup {<<u, calls[k].id>>}
            /\ transactionMappings' =
                 saveTransactionMapping(ShortTxId(calls[k].id), calls[k].id)
            /\ logged' = logged
            /\ calls' = [calls EXCEPT ![k].pending = @ \ {u}]
       ELSE /\ UNCHANGED <<buttons, transactionMappings>>
            /\ logged' = logged \cup {<<"sendPayoutRequest", u, calls[k].id>>}
            /\ calls' = [calls EXCEPT ![k].pc = "done", ![k].pending = {},
                 ![k].resp = [external_id |-> NoId, status |-> 2, code |-> 500]]
  /\ UNCHANGED <<rateVars, timeVars, shot, files, qry, env, users, txs, screenshots, timers, userStates, acc, upl, can,
       callbacks, accepted>>

\* One pass of the notification loop: bot.sendPayoutRequest to operator u.
\* delivered = FALSE is sendMessage throwing, which the method catches and
\* logs before the mapping is saved; the loop goes on.
CreateNotify(k, u, delivered) ==
  /\ calls[k].pc = "found"
  /\ u \in calls[k].pending
  /\ sent' = [sent EXCEPT ![<<u, calls[k].id>>] = @ + 1]
  /\ IF delivered
       THEN /\ buttons' = buttons \cup {<<u, calls[k].id>>}
            /\ transactionMappings' =
                 saveTransactionMapping(ShortTxId(calls[k].id), calls[k].id)
            /\ logged' = logged
       ELSE /\ UNCHANGED <<buttons, transactionMappings>>
            /\ logged' = logged \cup {<<"sendPayoutRequest", u, calls[k].id>>}
  /\ calls' = [calls EXCEPT ![k].pending = @ \ {u}]
  /\ UNCHANGED <<rateVars, timeVars, shot, files, qry, env, users, txs, screenshots, timers, userStates, acc, upl, can,
       callbacks, accepted>>

\* CreateArmTimer without the setTimeout.
CreateArmTimer_NoTimer(k) ==
  /\ calls[k].pc = "found"
  /\ calls[k].operators # {}
  /\ calls[k].pending = {}
  /\ calls' = [calls EXCEPT ![k].pc = "done",
       ![k].resp = [external_id |-> calls[k].id, status |-> 1, code |-> 0]]
  /\ UNCHANGED <<rateVars, timeVars, shot, files, logged, qry, env, users, txs, screenshots, timers, transactionMappings,
       userStates, acc, upl, can, sent, buttons, callbacks, accepted>>

\* After the loop: setTimeout arms the expiry callback, 200 with the id.
CreateArmTimer(k) ==
  /\ calls[k].pc = "found"
  /\ calls[k].operators # {}
  /\ calls[k].pending = {}
  /\ timers' = [timers EXCEPT ![calls[k].id] = "armed"]
  /\ calls' = [calls EXCEPT ![k].pc = "done",
       ![k].resp = [external_id |-> calls[k].id, status |-> 1, code |-> 0]]
  /\ UNCHANGED <<rateVars, timeVars, shot, files, logged, qry, env, users, txs, screenshots, transactionMappings, userStates,
       acc, upl, can, sent, buttons, callbacks, accepted>>

Create ==
  \E k \in 1..MaxCalls :
    \/ \E req \in env.requests : CreateReject(k, req)
    \/ \E req \in env.requests, id \in TxIds : CreateInsert(k, req, id)
    \/ CreateFindOperators(k)
    \/ CreateNoOperators(k)
    \/ \E u \in Users, d \in BOOLEAN : CreateNotify(k, u, d)
    \/ CreateArmTimer(k)

\* Users who hold a message with the cancel keyboard: it comes with the
\* "accepted" reply and with the replies that open a dialog.
CancelKeyboards ==
  {u \in Users :
     \/ \E id \in TxIds : u \in accepted[id]
     \/ userStates[u].awaitingBalance
     \/ userStates[u].awaitingOperatorId}

\* ------------------------------------------- the setTimeout expiry callback
\* The timer fires: db.transaction.findUnique reads the row.
TimerFire(id) ==
  /\ timers[id] = "armed"
  /\ InFlight < env.inFlight
  /\ timers' = [timers EXCEPT ![id] =
       IF txs[id].status = "PENDING" THEN "read" ELSE "done"]
  /\ UNCHANGED <<rateVars, timeVars, shot, files, logged, qry, env, users, txs, screenshots, calls, transactionMappings,
       userStates, acc, upl, can, sent, buttons, callbacks, accepted>>

\* TimerExpire in which a failed POST puts the row back to PENDING.
TimerExpire_RollBack(id, ok) ==
  /\ timers[id] = "read"
  /\ txs[id].callbackUrl = "" => ok
  /\ txs' = [txs EXCEPT ![id].status = IF ok THEN "EXPIRED" ELSE "PENDING"]
  /\ callbacks' = [callbacks EXCEPT ![id] =
       IF txs[id].callbackUrl # "" THEN @ + 1 ELSE @]
  /\ logged' = IF ok THEN logged ELSE logged \cup {<<"callback", NoUser, id>>}
  /\ timers' = [timers EXCEPT ![id] = "done"]
  /\ UNCHANGED <<rateVars, timeVars, shot, files, qry, env, users, screenshots, calls, transactionMappings, userStates,
       acc, upl, can, sent, buttons, accepted>>

\* The row read was PENDING: db.transaction.update({ where: { id }, data:
\* { status: "EXPIRED" } }), then the POST to callback_url when it is set.
\* ok = FALSE is the POST throwing, which is caught and logged.
TimerExpire(id, ok) ==
  /\ timers[id] = "read"
  /\ txs[id].callbackUrl = "" => ok
  /\ txs' = [txs EXCEPT ![id].status = "EXPIRED"]
  /\ callbacks' = [callbacks EXCEPT ![id] =
       IF txs[id].callbackUrl # "" THEN @ + 1 ELSE @]
  /\ logged' = IF ok THEN logged ELSE logged \cup {<<"callback", NoUser, id>>}
  /\ timers' = [timers EXCEPT ![id] = "done"]
  /\ UNCHANGED <<rateVars, timeVars, shot, files, qry, env, users, screenshots, calls, transactionMappings, userStates,
       acc, upl, can, sent, buttons, accepted>>

Timer ==
  \E id \in TxIds : TimerFire(id) \/ \E ok \in BOOLEAN : TimerExpire(id, ok)

\* ------------------------------------------------ "ap:" action (accept)
\* this.transactionMappings.get(shortId)
getFullTransactionId(shortId) == transactionMappings[shortId]

AwaitingScreenshot(id) ==
  [defined |-> TRUE, awaitingBalance |-> FALSE, awaitingOperatorId |-> FALSE,
   awaitingScreenshot |-> TRUE, currentTransactionId |-> id]

ClearedState ==
  [defined |-> TRUE, awaitingBalance |-> FALSE, awaitingOperatorId |-> FALSE,
   awaitingScreenshot |-> FALSE, currentTransactionId |-> NoId]

\* AcceptPress that hands the destination of the callback data to
\* handleAcceptPayout.
AcceptPress_ShortDestination(u, msg) ==
  /\ <<u, msg>> \in buttons
  /\ acc[u].pc = "idle"
  /\ InFlight < env.inFlight
  /\ LET full == getFullTransactionId(ShortTxId(msg)) IN
       acc' = [acc EXCEPT ![u] =
         IF ~apMatch(ButtonData(msg, txs[msg].destination))
           THEN [IdleHandler EXCEPT !.pc = "unhandled", !.msg = msg]
         ELSE IF full = NoId \/ txs[full].status = "ABSENT"
           THEN [IdleHandler EXCEPT !.pc = "replied", !.msg = msg,
                                    !.reply = "notfound"]
         ELSE IF txs[full].status # "PENDING"
           THEN [IdleHandler EXCEPT !.pc = "replied", !.msg = msg,
                                    !.id = full, !.reply = "stale"]
           ELSE [IdleHandler EXCEPT !.pc = "checked", !.msg = msg,
                   !.id = full,
                   !.destination = shortDestination(txs[full].destination)]]
  /\ UNCHANGED <<rateVars, timeVars, shot, files, logged, qry, env, users, txs, screenshots, calls, timers, transactionMappings,
       userStates, upl, can, sent, buttons, callbacks, accepted>>

\* AcceptPress without the status check before the store transaction.
AcceptPress_NoStatusCheck(u, msg) ==
  /\ <<u, msg>> \in buttons
  /\ acc[u].pc = "idle"
  /\ InFlight < env.inFlight
  /\ LET full == getFullTransactionId(ShortTxId(msg)) IN
       acc' = [acc EXCEPT ![u] =
         IF ~apMatch(ButtonData(msg, txs[msg].destination))
           THEN [IdleHandler EXCEPT !.pc = "unhandled", !.msg = msg]
         ELSE IF full = NoId \/ txs[full].status = "ABSENT"
           THEN [IdleHandler EXCEPT !.pc = "replied", !.msg = msg,
                                    !.reply = "notfound"]
           ELSE [IdleHandler EXCEPT !.pc = "checked", !.msg = msg,
                   !.id = full, !.destination = txs[full].destination]]
  /\ UNCHANGED <<rateVars, timeVars, shot, files, logged, qry, env, users, txs, screenshots, calls, timers, transactionMappings,
       userStates, upl, can, sent, buttons, callbacks, accepted>>

\* User u presses the accept button of the message sent for transaction
\* msg. The handler resolves the short id, loads the row, and
\* handleAcceptPayout reads its status and the user row: reads only, taken
\* as one step (the status is read again inside the store transaction).
\* An unresolved short id and a row that is not PENDING each end in a reply.
\* Callback data that the pattern of the action does not match reaches no
\* handler: nothing is read and nothing is answered.
AcceptPress(u, msg) ==
  /\ <<u, msg>> \in buttons
  /\ acc[u].pc = "idle"
  /\ InFlight < env.inFlight
  /\ LET full == getFullTransactionId(ShortTxId(msg)) IN
       acc' = [acc EXCEPT ![u] =
         IF ~apMatch(ButtonData(msg, txs[msg].destination))
           THEN [IdleHandler EXCEPT !.pc = "unhandled", !.msg = msg]
         ELSE IF full = NoId \/ txs[full].status = "ABSENT"
           THEN [IdleHandler EXCEPT !.pc = "replied", !.msg = msg,
                                    !.reply = "notfound"]
         ELSE IF txs[full].status # "PENDING"
           THEN [IdleHandler EXCEPT !.pc = "replied", !.msg = msg,
                                    !.id = full, !.reply = "stale"]
           ELSE [IdleHandler EXCEPT !.pc = "checked", !.msg = msg,
                   !.id = full, !.destination = txs[full].destination]]
  /\ UNCHANGED <<rateVars, timeVars, shot, files, logged, qry, env, users, txs, screenshots, calls, timers, transactionMappings,
       userStates, upl, can, sent, buttons, callbacks, accepted>>

\* Inside db.$transaction: prisma.transaction.findUnique reads the status
\* again; not PENDING throws "Transaction is no longer available", which
\* the catch block answers with the "no longer available" reply.
AcceptRecheck(u) ==
  /\ acc[u].pc = "checked"
  /\ acc' = [acc EXCEPT ![u] =
       IF txs[acc[u].id].status = "PENDING"
         THEN [@ EXCEPT !.pc = "inTx"]
         ELSE [@ EXCEPT !.pc = "replied", !.reply = "stale"]]
  /\ UNCHANGED <<rateVars, timeVars, shot, files, logged, qry, env, users, txs, screenshots, calls, timers, transactionMappings,
       userStates, upl, can, sent, buttons, callbacks, accepted>>

\* AcceptUpdate without userId in the data of the update.
AcceptUpdate_NoOperator(u) ==
  /\ acc[u].pc = "inTx"
  /\ txs' = [txs EXCEPT ![acc[u].id].status = "ACCEPTED",
                        ![acc[u].id].destination = acc[u].destination]
  /\ acc' = [acc EXCEPT ![u].pc = "committed"]
  /\ UNCHANGED <<rateVars, timeVars, shot, files, logged, qry, env, users, screenshots, calls, timers, transactionMappings,
       userStates, upl, can, sent, buttons, callbacks, accepted>>

\* prisma.transaction.update({ where: { id }, data: { userId, status:
\* "ACCEPTED", destination } }) and the commit of the store transaction.
AcceptUpdate(u) ==
  /\ acc[u].pc = "inTx"
  /\ txs' = [txs EXCEPT ![acc[u].id].status = "ACCEPTED",
                        ![acc[u].id].userId = u,
                        ![acc[u].id].destination = acc[u].destination]
  /\ acc' = [acc EXCEPT ![u].pc = "committed"]
  /\ UNCHANGED <<rateVars, timeVars, shot, files, logged, qry, env, users, screenshots, calls, timers, transactionMappings,
       userStates, upl, can, sent, buttons, callbacks, accepted>>

\* After the store transaction: userStates.set and the success reply, which
\* carries the cancel keyboard.
AcceptDone(u) ==
  /\ acc[u].pc = "committed"
  /\ userStates' = [userStates EXCEPT ![u] = AwaitingScreenshot(acc[u].id)]
  /\ accepted' = [accepted EXCEPT ![acc[u].id] = @ \cup {u}]
  /\ acc' = [acc EXCEPT ![u].pc = "replied", ![u].reply = "accepted"]
  /\ UNCHANGED <<rateVars, timeVars, shot, files, logged, qry, env, users, txs, screenshots, calls, timers, transactionMappings,
       upl, can, sent, buttons, callbacks>>

\* The reply is out and the handler returns; after the success reply it
\* first removes the accept button from the pressed message.
AcceptReturn(u) ==
  /\ acc[u].pc \in {"replied", "unhandled"}
  /\ buttons' = IF acc[u].reply = "accepted"
                  THEN buttons \ {<<u, acc[u].msg>>} ELSE buttons
  /\ acc' = [acc EXCEPT ![u] = IdleHandler]
  /\ UNCHANGED <<rateVars, timeVars, shot, files, logged, qry, env, users, txs, screenshots, calls, timers, transactionMappings,
       userStates, upl, can, sent, callbacks, accepted>>

Accept ==
  \E u \in Users :
    \/ \E msg \in TxIds : AcceptPress(u, msg)
    \/ AcceptRecheck(u)
    \/ AcceptUpdate(u)
    \/ AcceptDone(u)
    \/ AcceptReturn(u)

\* ------------------------------------- photo / document message (proof)
\* handleScreenshotUpload passes its guard: the user's state awaits a
\* screenshot and names a transaction. The handler keeps that state object.
\* A user's n-th handler under way takes slot n.
UploadStart(u, n) ==
  /\ upl[u][n].pc = "idle"
  /\ n <= env.uploads
  /\ \A j \in 1..(n - 1) : upl[u][j].pc # "idle"
  /\ InFlight < env.inFlight
  /\ userStates[u].awaitingScreenshot
  /\ userStates[u].currentTransactionId # NoId
  /\ upl' = [upl EXCEPT ![u][n] =
       [IdleHandler EXCEPT !.pc = "started",
                           !.id = userStates[u].currentTransactionId]]
  /\ UNCHANGED <<rateVars, timeVars, shot, files, logged, qry, env, users, txs, screenshots, calls, timers,
       transactionMappings, userStates, acc, can, sent, buttons, callbacks,
       accepted>>

\* getFile or the download fails: caught, an error reply, nothing written.
UploadDownloadFail(u, n) ==
  /\ upl[u][n].pc = "started"
  /\ upl' = [upl EXCEPT ![u][n] = IdleHandler]
  /\ UNCHANGED <<rateVars, timeVars, shot, files, logged, qry, env, users, txs, screenshots, calls, timers,
       transactionMappings, userStates, acc, can, sent, buttons, callbacks,
       accepted>>

\* fileName = `${Date.now()}_${currentTransactionId}.${fileExt}`: the time is
\* 1 for the first file written for the transaction and 2 for a later one.
fileName(id) == <<IF \E f \in files : f[2] = id THEN 2 ELSE 1, id>>

\* ScreenshotUnique with no constraint on transactionId.
ScreenshotUnique_None(id) == id = id

\* Screenshot.transactionId is @unique: a second row for the transaction
\* is refused by the store.
ScreenshotUnique(id) == \A s \in screenshots : s.transactionId # id

\* The downloaded file is written to UPLOAD_DIR, then db.screenshot.create;
\* a refused insert throws, and is caught and logged.
UploadCreateScreenshot(u, n) ==
  /\ upl[u][n].pc = "started"
  /\ LET id == upl[u][n].id IN
       /\ files' = files \cup {fileName(id)}
       /\ IF ScreenshotUnique(id)
            THEN /\ screenshots' = screenshots \cup
                      {[path |-> fileName(id), transactionId |-> id,
                        userId |-> u]}
                 /\ upl' = [upl EXCEPT ![u][n].pc = "created"]
                 /\ logged' = logged
            ELSE /\ screenshots' = screenshots
                 /\ upl' = [upl EXCEPT ![u][n] = IdleHandler]
                 /\ logged' = logged \cup {<<"screenshot.create", u, id>>}
  /\ UNCHANGED <<rateVars, timeVars, shot, qry, env, users, txs, calls, timers, transactionMappings,
       userStates, acc, can, sent, buttons, callbacks, accepted>>

\* db.transaction.update({ where: { id }, data: { status: "COMPLETED" } })
UploadComplete(u, n) ==
  /\ upl[u][n].pc = "created"
  /\ txs' = [txs EXCEPT ![upl[u][n].id].status = "COMPLETED"]
  /\ upl' = [upl EXCEPT ![u][n].pc = "updated"]
  /\ UNCHANGED <<rateVars, timeVars, shot, files, logged, qry, env, users, screenshots, calls, timers,
       transactionMappings, userStates, acc, can, sent, buttons, callbacks,
       accepted>>

\* userStates.set(ctx.from.id, cleared) and the replies.
UploadDone(u, n) ==
  /\ upl[u][n].pc = "updated"
  /\ userStates' = [userStates EXCEPT ![u] = ClearedState]
  /\ upl' = [upl EXCEPT ![u][n] = IdleHandler]
  /\ UNCHANGED <<rateVars, timeVars, shot, files, logged, qry, env, users, txs, screenshots, calls, timers,
       transactionMappings, acc, can, sent, buttons, callbacks, accepted>>

Upload ==
  \E u \in Users, n \in 1..MaxUploads :
    \/ UploadStart(u, n)
    \/ UploadDownloadFail(u, n)
    \/ UploadCreateScreenshot(u, n)
    \/ UploadComplete(u, n)
    \/ UploadDone(u, n)

\* UploadDropped that clears the user's state before it returns.
UploadDropped_Clears(u, n) ==
  /\ upl[u][n].pc = "idle"
  /\ n <= env.uploads
  /\ \A j \in 1..(n - 1) : upl[u][j].pc # "idle"
  /\ InFlight < env.inFlight
  /\ ~(/\ userStates[u].awaitingScreenshot
       /\ userStates[u].currentTransactionId # NoId)
  /\ upl' = [upl EXCEPT ![u][n] = [IdleHandler EXCEPT !.pc = "dropped"]]
  /\ userStates' = [userStates EXCEPT ![u] = ClearedState]
  /\ UNCHANGED <<rateVars, timeVars, shot, files, logged, qry, env, users, txs, screenshots,
       calls, timers, transactionMappings, acc, can, sent, buttons,
       callbacks, accepted>>

\* A photo or document message of a user whose state does not await a
\* screenshot for a transaction: handleScreenshotUpload returns at its
\* guard.
UploadDropped(u, n) ==
  /\ upl[u][n].pc = "idle"
  /\ n <= env.uploads
  /\ \A j \in 1..(n - 1) : upl[u][j].pc # "idle"
  /\ InFlight < env.inFlight
  /\ ~(/\ userStates[u].awaitingScreenshot
       /\ userStates[u].currentTransactionId # NoId)
  /\ upl' = [upl EXCEPT ![u][n] = [IdleHandler EXCEPT !.pc = "dropped"]]
  /\ UNCHANGED <<rateVars, timeVars, shot, files, logged, qry, env, users, txs, screenshots,
       calls, timers, transactionMappings, userStates, acc, can, sent, buttons,
       callbacks, accepted>>

\* bot.on("message") returns after the dropped message.
UploadDroppedReturn(u, n) ==
  /\ upl[u][n].pc = "dropped"
  /\ upl' = [upl EXCEPT ![u][n] = IdleHandler]
  /\ UNCHANGED <<rateVars, timeVars, shot, files, logged, qry, env, users, txs, screenshots,
       calls, timers, transactionMappings, userStates, acc, can, sent, buttons,
       callbacks, accepted>>

UploadIgnored ==
  \E u \in Users, n \in 1..MaxUploads :
    UploadDropped(u, n) \/ UploadDroppedReturn(u, n)

\* ---------------------------------------------------- cancel_action
\* The handler reads the user's state; with a current transaction it issues
\* the update, without one it clears the state at once.
CancelPress(u) ==
  /\ u \in CancelKeyboards
  /\ InFlight < env.inFlight
  /\ can[u].pc = "idle"
  /\ IF userStates[u].currentTransactionId # NoId
       THEN /\ can' = [can EXCEPT ![u] =
                 [IdleHandler EXCEPT !.pc = "updating",
                    !.id = userStates[u].currentTransactionId]]
            /\ userStates' = userStates
       ELSE /\ can' = can
            /\ userStates' = [userStates EXCEPT ![u] = ClearedState]
  /\ UNCHANGED <<rateVars, timeVars, shot, files, logged, qry, env, users, txs, screenshots, calls, timers, transactionMappings,
       acc, upl, sent, buttons, callbacks,
       accepted>>

\* db.transaction.update({ where: { id }, data: { status: "CANCELLED" } })
CancelUpdate(u) ==
  /\ can[u].pc = "updating"
  /\ txs' = [txs EXCEPT ![can[u].id].status = "CANCELLED"]
  /\ can' = [can EXCEPT ![u].pc = "updated"]
  /\ UNCHANGED <<rateVars, timeVars, shot, files, logged, qry, env, users, screenshots, calls, timers, transactionMappings,
       userStates, acc, upl, sent, buttons, callbacks, accepted>>

\* userStates.set(ctx.from.id, cleared) and the replies.
CancelDone(u) ==
  /\ can[u].pc = "updated"
  /\ userStates' = [userStates EXCEPT ![u] = ClearedState]
  /\ can' = [can EXCEPT ![u] = IdleHandler]
  /\ UNCHANGED <<rateVars, timeVars, shot, files, logged, qry, env, users, txs, screenshots, calls, timers, transactionMappings,
       acc, upl, sent, buttons, callbacks,
       accepted>>

Cancel ==
  \E u \in Users : CancelPress(u) \/ CancelUpdate(u) \/ CancelDone(u)

\* ------------------------------------- set_balance and add_operator actions
\* config.ADMIN_TELEGRAM_ID: the administrator, here one of the operators.
ADMIN_TELEGRAM_ID == "op1"

\* The state the set_balance action stores.
AwaitingBalance ==
  [defined |-> TRUE, awaitingBalance |-> TRUE, awaitingOperatorId |-> FALSE,
   awaitingScreenshot |-> FALSE, currentTransactionId |-> NoId]

\* The state the add_operator action stores.
AwaitingOperatorId ==
  [defined |-> TRUE, awaitingBalance |-> FALSE, awaitingOperatorId |-> TRUE,
   awaitingScreenshot |-> FALSE, currentTransactionId |-> NoId]

\* bot.action("set_balance"): an operator (ctx.state.isOperator) has the
\* state replaced; the reply carries the cancel keyboard.
SetBalancePress(u) ==
  /\ users[u].isAdmin
  /\ InFlight < env.inFlight
  /\ userStates[u] # AwaitingBalance
  /\ userStates' = [userStates EXCEPT ![u] = AwaitingBalance]
  /\ UNCHANGED <<rateVars, timeVars, shot, files, logged, qry, env, users, txs, screenshots,
       calls, timers, transactionMappings, acc, upl, can, sent, buttons,
       callbacks, accepted>>

\* bot.action("add_operator"): the administrator (ctx.state.isAdmin) has the
\* state replaced; the reply carries the cancel keyboard.
AddOperatorPress(u) ==
  /\ u = ADMIN_TELEGRAM_ID
  /\ InFlight < env.inFlight
  /\ userStates[u] # AwaitingOperatorId
  /\ userStates' = [userStates EXCEPT ![u] = AwaitingOperatorId]
  /\ UNCHANGED <<rateVars, timeVars, shot, files, logged, qry, env, users, txs, screenshots,
       calls, timers, transactionMappings, acc, upl, can, sent, buttons,
       callbacks, accepted>>

Dialog == \E u \in Users : SetBalancePress(u) \/ AddOperatorPress(u)

\* ---------------------------------------------------- POST /payout/status
\* An id no create call has drawn (the first id drawn is named TX_aaaaaaaa).
UnknownId == <<"TX_bbbbbbbb", 1>>

\* The status table of the handler: { PENDING: 1, ACCEPTED: 1, COMPLETED: 2,
\* FAILED: 3, EXPIRED: 3, CANCELLED: 3 }[transaction.status] || 3
StatusCode(status) ==
  CASE status = "PENDING" -> 1
    [] status = "ACCEPTED" -> 1
    [] status = "COMPLETED" -> 2
    [] status = "FAILED" -> 3
    [] status = "EXPIRED" -> 3
    [] status = "CANCELLED" -> 3
    [] OTHER -> 3

\* transaction.screenshot?.path || "": the stored file name, which is named
\* after the transaction; here the id it embeds.
ScreenshotPath(id) ==
  IF \E s \in screenshots : s.transactionId = id THEN id ELSE NoId

\* payoutStatus with amountPaid set to the amount whatever the status.
payoutStatus_AlwaysPaid(id) ==
  IF txs[id].status = "ABSENT"
    THEN [clientUniqueId |-> id, status |-> 3, amount |-> 0, amountPaid |-> 0,
          reason |-> "NotFound", code |-> 404, screenshot |-> NoId]
    ELSE [clientUniqueId |-> id, status |-> StatusCode(txs[id].status),
          amount |-> txs[id].amount,
          amountPaid |-> txs[id].amount,
          reason |->
            IF txs[id].status = "COMPLETED" THEN "" ELSE txs[id].status,
          code |-> 0, screenshot |-> ScreenshotPath(id)]

\* The response of the handler for clientUniqueId = id: findUnique with the
\* screenshot included, 404 when there is no row.
payoutStatus(id) ==
  IF txs[id].status = "ABSENT"
    THEN [clientUniqueId |-> id, status |-> 3, amount |-> 0, amountPaid |-> 0,
          reason |-> "NotFound", code |-> 404, screenshot |-> NoId]
    ELSE [clientUniqueId |-> id, status |-> StatusCode(txs[id].status),
          amount |-> txs[id].amount,
          amountPaid |->
            IF txs[id].status = "COMPLETED" THEN txs[id].amount ELSE 0,
          reason |->
            IF txs[id].status = "COMPLETED" THEN "" ELSE txs[id].status,
          code |-> 0, screenshot |-> ScreenshotPath(id)]

\* The handler runs its one read and builds the response.
StatusQuery(id) ==
  /\ qry = NoQuery
  /\ InFlight < env.inFlight
  /\ txs[id].status # "ABSENT" \/ id = UnknownId
  /\ qry' = payoutStatus(id)
  /\ UNCHANGED <<rateVars, timeVars, shot, files, logged, env, users, txs, screenshots, calls, timers,
       transactionMappings, userStates, acc, upl, can, sent, buttons,
       callbacks, accepted>>

\* The response is returned.
StatusReturn ==
  /\ qry # NoQuery
  /\ qry' = NoQuery
  /\ UNCHANGED <<rateVars, timeVars, shot, files, logged, env, users, txs, screenshots, calls, timers,
       transactionMappings, userStates, acc, upl, can, sent, buttons,
       callbacks, accepted>>

Status == (\E id \in TxIds : StatusQuery(id)) \/ StatusReturn

\* ------------------------------------------ GET /payout/screenshot/:filename
\* A name that reaches an existing file outside the bot's uploads and
\* carries no transaction id (such as "../package.json").
OtherFile == <<0, NoId>>

\* The values of params.filename the requests carry: the two names a
\* stored transaction's files can have, on disk or not, and OtherFile.
FileNames == ({1, 2} \X {id \in TxIds : txs[id] # NoTx}) \cup {OtherFile}

\* existsSync(join(config.UPLOAD_DIR, params.filename))
existsSync(name) == name \in files \/ name = OtherFile

\* params.filename.match(/TX_[a-f0-9-]+/): the id the name embeds, if any.
txIdMatch(name) == name[2]

\* db.screenshot.findFirst({ where: { path: params.filename, transaction:
\* { id: transactionId } } })
findScreenshot(name, transactionId) ==
  {s \in screenshots : s.path = name /\ s.transactionId = transactionId}

\* getScreenshot that serves every existing file whose name embeds an id.
getScreenshot_NoRecordCheck(name) ==
  /\ shot = NoShot
  /\ InFlight < env.inFlight
  /\ shot' =
       IF ~existsSync(name)
         THEN [filename |-> name, code |-> 404, served |-> FALSE]
       ELSE IF txIdMatch(name) = NoId
         THEN [filename |-> name, code |-> 400, served |-> FALSE]
       ELSE [filename |-> name, code |-> 200, served |-> TRUE]
  /\ UNCHANGED <<rateVars, timeVars, files, logged, qry, env, users, txs, screenshots, calls, timers,
       transactionMappings, userStates, acc, upl, can, sent, buttons,
       callbacks, accepted>>

\* The handler: 404 without the file, 400 without an id in the name, 404
\* without the row, and the file's content otherwise. Rows and files are
\* never removed, so the handler is taken as one step.
getScreenshot(name) ==
  /\ shot = NoShot
  /\ InFlight < env.inFlight
  /\ shot' =
       IF ~existsSync(name)
         THEN [filename |-> name, code |-> 404, served |-> FALSE]
       ELSE IF txIdMatch(name) = NoId
         THEN [filename |-> name, code |-> 400, served |-> FALSE]
       ELSE IF findScreenshot(name, txIdMatch(name)) = {}
         THEN [filename |-> name, code |-> 404, served |-> FALSE]
       ELSE [filename |-> name, code |-> 200, served |-> TRUE]
  /\ UNCHANGED <<rateVars, timeVars, files, logged, qry, env, users, txs, screenshots, calls, timers,
       transactionMappings, userStates, acc, upl, can, sent, buttons,
       callbacks, accepted>>

\* The response is returned.
screenshotReturn ==
  /\ shot # NoShot
  /\ shot' = NoShot
  /\ UNCHANGED <<rateVars, timeVars, files, logged, qry, env, users, txs, screenshots, calls, timers,
       transactionMappings, userStates, acc, upl, can, sent, buttons,
       callbacks, accepted>>

Screenshot == (\E name \in FileNames : getScreenshot(name)) \/ screenshotReturn

\* Restart after which the bot still has its short-id mapping.
Restart_KeepMappings ==
  /\ userStates' = [u \in Users |-> NoState]
  /\ timers' = [id \in TxIds |->
       IF timers[id] \in {"armed", "read"} THEN "lost" ELSE timers[id]]
  /\ calls' = [k \in 1..MaxCalls |->
       IF calls[k].pc \in {"inserted", "found"}
         THEN [calls[k] EXCEPT !.pc = "killed"] ELSE calls[k]]
  /\ acc' = [u \in Users |-> IdleHandler]
  /\ upl' = [u \in Users |-> [n \in 1..MaxUploads |-> IdleHandler]]
  /\ can' = [u \in Users |-> IdleHandler]
  /\ qry' = NoQuery
  /\ shot' = NoShot
  /\ UNCHANGED <<rateVars, timeVars, transactionMappings, files, logged, env, users, txs, screenshots, sent, buttons,
       callbacks, accepted>>

\* ------------------------------------------------------ process restart
\* The process stops and main() runs again: the store and the messages
\* already delivered stay; the bot's maps, the timers and every handler in
\* flight are gone (a create call in flight is never answered).
Restart ==
  /\ transactionMappings' = [s \in Prefixes |-> NoId]
  /\ userStates' = [u \in Users |-> NoState]
  /\ timers' = [id \in TxIds |->
       IF timers[id] \in {"armed", "read"} THEN "lost" ELSE timers[id]]
  /\ calls' = [k \in 1..MaxCalls |->
       IF calls[k].pc \in {"inserted", "found"}
         THEN [calls[k] EXCEPT !.pc = "killed"] ELSE calls[k]]
  /\ acc' = [u \in Users |-> IdleHandler]
  /\ upl' = [u \in Users |-> [n \in 1..MaxUploads |-> IdleHandler]]
  /\ can' = [u \in Users |-> IdleHandler]
  /\ qry' = NoQuery
  /\ shot' = NoShot
  /\ UNCHANGED <<rateVars, timeVars, files, logged, env, users, txs, screenshots, sent, buttons,
       callbacks, accepted>>

\* ------------------------------------------------------------ rate service
\* Numbers are amounts in kopecks. The sources quote whole rubles, so every
\* half taken below is exact.
\* NaN, and undefined / no value.
NaN == -1
NoRate == -2

\* Number of samples in a call of calculateAccurateRate on its own.
MaxSamples == 3

\* The time to live handed to cache.set, and the default of the polling
\* interval handed to setInterval (milliseconds).
CACHE_TTL == 300000
RATE_UPDATE_INTERVAL == 300000

\* a + b and a / 2 on numbers.
Plus(a, b) == IF a = NaN \/ b = NaN THEN NaN ELSE a + b
Half(a) == IF a = NaN THEN NaN ELSE a \div 2

\* parseFloat on the price strings the payloads carry.
parseFloat(str) ==
  CASE str = "10" -> 1000
    [] str = "12" -> 1200
    [] str = "0" -> 0
    [] OTHER -> NaN

\* What the request to Binance may give: no response, a body that fails
\* the schema { symbol: string, price: string }, or a body that passes it.
BinancePayloads ==
  { [fetched |-> FALSE, valid |-> FALSE, price |-> ""],
    [fetched |-> TRUE, valid |-> FALSE, price |-> ""],
    [fetched |-> TRUE, valid |-> TRUE, price |-> "10"],
    [fetched |-> TRUE, valid |-> TRUE, price |-> "12"],
    [fetched |-> TRUE, valid |-> TRUE, price |-> "0"],
    [fetched |-> TRUE, valid |-> TRUE, price |-> "abc"] }

\* What the request to Huobi may give: no response, a body that fails the
\* schema { tick: { bid: number[], ask: number[] } }, or a body that passes
\* it (empty lists pass).
HuobiPayloads ==
  { [fetched |-> FALSE, valid |-> FALSE, bid |-> <<>>, ask |-> <<>>],
    [fetched |-> TRUE, valid |-> FALSE, bid |-> <<>>, ask |-> <<>>],
    [fetched |-> TRUE, valid |-> TRUE, bid |-> <<>>, ask |-> <<>>],
    [fetched |-> TRUE, valid |-> TRUE, bid |-> <<1000>>, ask |-> <<1400>>],
    [fetched |-> TRUE, valid |-> TRUE, bid |-> <<1400>>, ask |-> <<1400>>] }

\* A settled or pending promise of fetchRate.
Pending == [status |-> "pending", value |-> NoRate]
Rejected == [status |-> "rejected", value |-> NoRate]
Fulfilled(v) == [status |-> "fulfilled", value |-> v]

\* BinanceFetcher.fetchRate
BinanceFetchRate(p) ==
  IF ~p.fetched \/ ~p.valid THEN Rejected
  ELSE Fulfilled(parseFloat(p.price))

\* HuobiFetcher.fetchRate: bid[0] and ask[0] of an empty list are undefined,
\* and undefined in a sum gives NaN.
HuobiFetchRate(p) ==
  IF ~p.fetched \/ ~p.valid THEN Rejected
  ELSE LET bidPrice == IF Len(p.bid) > 0 THEN p.bid[1] ELSE NaN
           askPrice == IF Len(p.ask) > 0 THEN p.ask[1] ELSE NaN
       IN Fulfilled(Half(Plus(bidPrice, askPrice)))

\* RateService.fetchers, in order, with the payloads each may get.
Fetchers == <<"Binance", "Huobi">>
FetchRate(i, p) ==
  IF Fetchers[i] = "Binance" THEN BinanceFetchRate(p) ELSE HuobiFetchRate(p)
Payloads(i) ==
  IF Fetchers[i] = "Binance" THEN BinancePayloads ELSE HuobiPayloads

\* results.filter(fulfilled).map(value): in the order of fetchers.
successfulRates(results) ==
  LET f == SelectSeq(results, LAMBDA r : r.status = "fulfilled") IN
    [i \in 1..Len(f) |-> f[i].value]

\* The comparator (a, b) => a - b; a NaN result counts as 0.
Compare(a, b) == IF a = NaN \/ b = NaN THEN 0 ELSE a - b

\* rates.sort(compare): a stable sort, by insertion.
RECURSIVE InsertSorted(_, _)
InsertSorted(x, s) ==
  IF s = <<>> THEN <<x>>
  ELSE IF Compare(x, Head(s)) < 0 THEN <<x>> \o s
  ELSE <<Head(s)>> \o InsertSorted(x, Tail(s))

RECURSIVE sort(_)
sort(s) ==
  IF s = <<>> THEN <<>>
  ELSE InsertSorted(s[Len(s)], sort(SubSeq(s, 1, Len(s) - 1)))

\* calculateAccurateRate without the sort.
calculateAccurateRate_NoSort(rs) ==
  LET mid == Len(rs) \div 2 IN
    IF Len(rs) % 2 # 0 THEN rs[mid + 1]
    ELSE Half(Plus(rs[mid], rs[mid + 1]))

\* RateService.calculateAccurateRate (indices from 1).
calculateAccurateRate(rs) ==
  LET sorted == sort(rs)
      mid == Len(sorted) \div 2
  IN IF Len(sorted) % 2 # 0 THEN sorted[mid + 1]
     ELSE Half(Plus(sorted[mid], sorted[mid + 1]))

\* No updateRates call is in flight in a slot; outcome is how its last one ended:
\* "written", or the error its catch block logged ("noRates" for "No
\* exchange rates were fetched successfully", "storeError" for a throw of
\* the store), or "none".
IdleCycle(outcome) ==
  [pc |-> "idle", results |-> <<>>, accurateRate |-> NoRate,
   outcome |-> outcome]
IdleRead == [pc |-> "idle", code |-> 0, rate |-> NoRate]

\* The row key of the upsert.
CombinedKey == [from |-> "USDT", to |-> "RUB", source |-> "COMBINED"]
HasKey(row, key) ==
  row.from = key.from /\ row.to = key.to /\ row.source = key.source

\* upsert that inserts a row whether or not the key has one.
upsert_Append(key, rate) ==
  exchangeRates \cup
    {[from |-> key.from, to |-> key.to, source |-> key.source, rate |-> rate]}

\* db.exchangeRate.upsert({ where: from_to_source, update, create })
upsert(key, rate) ==
  IF \E row \in exchangeRates : HasKey(row, key)
    THEN {IF HasKey(row, key) THEN [row EXCEPT !.rate = rate] ELSE row :
            row \in exchangeRates}
    ELSE exchangeRates \cup
           {[from |-> key.from, to |-> key.to, source |-> key.source,
             rate |-> rate]}

\* updateRates calls, and GET /api/rate calls, under way.
CyclesInFlight == Cardinality({c \in 1..MaxCycles : cycle[c].pc # "idle"})
ReadsInFlight == IF rateResp.pc # "idle" THEN 1 ELSE 0

\* updateRates starts in slot c (the lowest free one): every fetcher's
\* fetchRate is called.
updateRatesStart(c) ==
  /\ cycle[c].pc = "idle"
  /\ c <= env.cycles
  /\ ReadsInFlight < env.inFlight
  /\ \A j \in 1..(c - 1) : cycle[j].pc # "idle"
  /\ cycle' = [cycle EXCEPT ![c] =
       [pc |-> "fetching",
        results |-> [i \in 1..Len(Fetchers) |-> Pending],
        accurateRate |-> NoRate, outcome |-> "none"]]
  /\ UNCHANGED <<lifeVars, timeVars, medianVars, exchangeRates, cache, rateResp>>

\* The fetchRate promise of fetcher i settles. Nothing reads the results
\* before all have settled, so they are taken in the order of fetchers.
FetchSettle(c, i, p) ==
  /\ cycle[c].pc = "fetching"
  /\ cycle[c].results[i].status = "pending"
  /\ \A j \in 1..(i - 1) : cycle[c].results[j].status # "pending"
  /\ cycle' = [cycle EXCEPT ![c].results[i] = FetchRate(i, p)]
  /\ UNCHANGED <<lifeVars, timeVars, medianVars, exchangeRates, cache, rateResp>>

\* updateRatesAggregate which, with no successful rate, stores 0.
updateRatesAggregate_ZeroOnFailure(c) ==
  /\ cycle[c].pc = "fetching"
  /\ \A i \in 1..Len(Fetchers) : cycle[c].results[i].status # "pending"
  /\ LET successful == successfulRates(cycle[c].results)
         rate == IF successful = <<>> THEN 0
                 ELSE calculateAccurateRate(successful)
     IN IF rate = NaN
          THEN /\ cycle' = [cycle EXCEPT ![c] = IdleCycle("storeError")]
               /\ UNCHANGED exchangeRates
          ELSE /\ exchangeRates' = upsert(CombinedKey, rate)
               /\ cycle' = [cycle EXCEPT ![c].pc = "upserted",
                                         ![c].accurateRate = rate]
  /\ UNCHANGED <<lifeVars, timeVars, medianVars, cache, rateResp>>

\* Promise.allSettled resolves. With no successful rate the method throws
\* into its own catch. Otherwise the median is upserted; the store refuses
\* NaN as a Float value, which also lands in the catch.
updateRatesAggregate(c) ==
  /\ cycle[c].pc = "fetching"
  /\ \A i \in 1..Len(Fetchers) : cycle[c].results[i].status # "pending"
  /\ LET successful == successfulRates(cycle[c].results) IN
       IF successful = <<>>
         THEN /\ cycle' = [cycle EXCEPT ![c] = IdleCycle("noRates")]
              /\ UNCHANGED exchangeRates
         ELSE LET rate == calculateAccurateRate(successful) IN
           IF rate = NaN
             THEN /\ cycle' = [cycle EXCEPT ![c] = IdleCycle("storeError")]
                  /\ UNCHANGED exchangeRates
             ELSE /\ exchangeRates' = upsert(CombinedKey, rate)
                  /\ cycle' = [cycle EXCEPT ![c].pc = "upserted",
                                            ![c].accurateRate = rate]
  /\ UNCHANGED <<lifeVars, timeVars, medianVars, cache, rateResp>>

\* cache.set("rate:RUB:USDT", accurateRate, 300_000): the entry is given
\* CACHE_TTL to live.
updateRatesCacheSet(c) ==
  /\ cycle[c].pc = "upserted"
  /\ cache' = cycle[c].accurateRate
  /\ cycle' = [cycle EXCEPT ![c] = IdleCycle("written")]
  /\ UNCHANGED <<lifeVars, timeVars, medianVars, exchangeRates, rateResp>>

\* The time to live of the cache entry runs out.
CacheExpire ==
  /\ cache # NoRate
  /\ cache' = NoRate
  /\ UNCHANGED <<lifeVars, timeVars, medianVars, exchangeRates, cycle, rateResp>>

updateRates ==
  \E c \in 1..MaxCycles :
    \/ updateRatesStart(c)
    \/ \E i \in 1..Len(Fetchers) : \E p \in Payloads(i) : FetchSettle(c, i, p)
    \/ updateRatesAggregate(c)
    \/ updateRatesCacheSet(c)

\* rateResponseSchema.parse({ rate, timestamp }): z.number() refuses NaN,
\* and the throw is answered 500.
RateResponse(rate) ==
  IF rate = NaN THEN [pc |-> "done", code |-> 500, rate |-> NoRate]
  ELSE [pc |-> "done", code |-> 200, rate |-> rate]

\* GET /api/rate: cache.get; a hit is answered, a miss goes to the store.
rateRead ==
  /\ rateResp.pc = "idle"
  /\ CyclesInFlight < env.inFlight
  /\ rateResp' = IF cache # NoRate THEN RateResponse(cache)
                 ELSE [IdleRead EXCEPT !.pc = "miss"]
  /\ UNCHANGED <<lifeVars, timeVars, medianVars, exchangeRates, cache, cycle>>

\* db.exchangeRate.findFirst({ where: { from: "USDT", to: "RUB" }, orderBy:
\* { createdAt: "desc" } }): the rows with these currencies (the upsert
\* keeps one).
findFirst == {row \in exchangeRates : row.from = "USDT" /\ row.to = "RUB"}

\* rateReadStore that also puts the stored rate into the cache.
rateReadStore_FillCache ==
  /\ rateResp.pc = "miss"
  /\ IF findFirst # {}
       THEN LET latestRate == CHOOSE row \in findFirst : TRUE IN
              /\ rateResp' = RateResponse(latestRate.rate)
              /\ cache' = latestRate.rate
       ELSE /\ rateResp' = [pc |-> "done", code |-> 404, rate |-> NoRate]
            /\ cache' = cache
  /\ UNCHANGED <<lifeVars, timeVars, medianVars, exchangeRates, cycle>>

\* GET /api/rate after a miss: the latest stored rate, or 404.
rateReadStore ==
  /\ rateResp.pc = "miss"
  /\ rateResp' =
       IF findFirst # {}
         THEN LET latestRate == CHOOSE row \in findFirst : TRUE IN
                RateResponse(latestRate.rate)
         ELSE [pc |-> "done", code |-> 404, rate |-> NoRate]
  /\ UNCHANGED <<lifeVars, timeVars, medianVars, exchangeRates, cache, cycle>>

\* The response is returned.
rateReturn ==
  /\ rateResp.pc = "done"
  /\ rateResp' = IdleRead
  /\ UNCHANGED <<lifeVars, timeVars, medianVars, exchangeRates, cache, cycle>>

getRate == rateRead \/ rateReadStore \/ rateReturn

\* The process stops and main() runs again: the store stays, the cache and
\* the calls in flight are gone.
RateRestart ==
  /\ cache' = NoRate
  /\ cycle' = [c \in 1..MaxCycles |-> IdleCycle("none")]
  /\ rateResp' = IdleRead
  /\ UNCHANGED <<lifeVars, timeVars, medianVars, exchangeRates>>

\* A call of calculateAccurateRate on the array rates: the array is sorted
\* in place and the median returned.
calculateCall ==
  /\ accurateRate = NoRate
  /\ accurateRate' = calculateAccurateRate(rates)
  /\ rates' = sort(rates)
  /\ UNCHANGED <<lifeVars, timeVars, serviceVars>>

\* The values of the samples and the arrays handed to calculateAccurateRate.
SampleValues == {1000, 1200, 1400, 1600}
SampleArrays ==
  UNION {[1..n -> SampleValues] : n \in 1..MaxSamples}

ServiceInit ==
  /\ exchangeRates = {}
  /\ cache = NoRate
  /\ cycle = [c \in 1..MaxCycles |-> IdleCycle("none")]
  /\ rateResp = IdleRead

\* ------------------------------------------- the delay of the expiry timer
\* Times are in seconds; delays are in milliseconds, as setTimeout takes
\* them.
\* No timer armed, nothing written.
NoTime == -1

\* The largest delay a timer takes: 2^31 - 1 ms.
TIMEOUT_MAX == 2147483647

\* Number of clock readings, and of distances from the clock to the
\* deadline, that the calls of the timer on its own are drawn from.
MaxClocks == 3
MaxDistances == 8

\* Math.floor(Date.now() / 1000) when the create handler arms the timer.
Clocks == {1000 + 500 * (i - 1) : i \in 1..MaxClocks}

\* body.expiredOfferTime minus the clock: a deadline that has passed, the
\* present, near deadlines, and deadlines on both sides of TIMEOUT_MAX ms.
Distances ==
  {CASE i = 1 -> -10
     [] i = 2 -> 0
     [] i = 3 -> 1
     [] i = 4 -> 60
     [] i = 5 -> 2147483
     [] i = 6 -> 2147484
     [] i = 7 -> 2592000
     [] OTHER -> 2147483 + i : i \in 1..MaxDistances}

\* setTimeout(callback, (body.expiredOfferTime - Math.floor(Date.now() /
\* 1000)) * 1000): the delay the timer runs with. A delay above TIMEOUT_MAX
\* or below 1 is set to 1.
setTimeoutDelay(seconds) ==
  IF seconds > TIMEOUT_MAX \div 1000 \/ seconds < 1
    THEN 1 ELSE seconds * 1000

TimeIdle ==
  /\ clock = 0
  /\ offer = [expiredTime |-> 0, expiredOfferTime |-> 0]
  /\ timeout = NoTime
  /\ expiredAt = NoTime

\* The create handler, from validateTimes to setTimeout.
TimerArm ==
  /\ timeout = NoTime
  /\ validateTimes(offer.expiredTime, offer.expiredOfferTime)
  /\ timeout' = setTimeoutDelay(offer.expiredOfferTime - clock)
  /\ UNCHANGED <<lifeVars, rateVars, clock, offer, expiredAt>>

\* The delay has run: the callback finds the row PENDING and writes
\* EXPIRED.
TimerElapse ==
  /\ timeout # NoTime
  /\ expiredAt = NoTime
  /\ clock' = clock + timeout \div 1000
  /\ expiredAt' = clock'
  /\ UNCHANGED <<lifeVars, rateVars, offer, timeout>>

\* ----------------------------------------------------------- specifications
Init ==
  /\ LifecycleInit
  /\ ServiceInit
  /\ rates = <<>>
  /\ accurateRate = NoRate
  /\ TimeIdle

Next == Create \/ Timer \/ Accept \/ Upload \/ Cancel \/ Status \/ Restart

Spec == Init /\ [][Next]_vars

\* The payout lifecycle with store operations of create that may throw.
NextFault == Next \/ CreateFault

SpecFault == Init /\ [][NextFault]_vars

\* One run of the process, with no restart: the payout lifecycle with store
\* operations of create that may throw and with the operators' dialogs.
NextRun ==
  Create \/ CreateFault \/ Timer \/ Accept \/ Upload \/ Cancel \/ Dialog

SpecRun == Init /\ [][NextRun]_vars

\* The way to a proof and the messages around it: create, accept, the
\* dialogs, and photo or document messages in every input-mode state.
NextUpload == Create \/ Accept \/ Dialog \/ Upload \/ UploadIgnored

SpecUpload == Init /\ [][NextUpload]_vars

\* The payout lifecycle on the destinations of ButtonRequests.
InitButton ==
  /\ LifecycleStart(ButtonScenarios)
  /\ ServiceInit
  /\ rates = <<>>
  /\ accurateRate = NoRate
  /\ TimeIdle

SpecButton == InitButton /\ [][Next]_vars

\* The payout lifecycle with the reads of proofs in place of the status
\* queries.
NextProof ==
  Create \/ Timer \/ Accept \/ Upload \/ Cancel \/ Screenshot \/ Restart

SpecProof == Init /\ [][NextProof]_vars

\* The rate service on its own.
NextRate == updateRates \/ CacheExpire \/ getRate \/ RateRestart

SpecRate == Init /\ [][NextRate]_vars

\* calculateAccurateRate on its own, on every array of up to MaxSamples
\* samples.
InitMedian ==
  /\ LifecycleInit
  /\ ServiceInit
  /\ rates \in SampleArrays
  /\ accurateRate = NoRate
  /\ TimeIdle

NextMedian == calculateCall

SpecMedian == InitMedian /\ [][NextMedian]_vars

\* The expiry timer on its own, on every clock reading and deadline drawn.
InitTimer ==
  /\ LifecycleInit
  /\ ServiceInit
  /\ rates = <<>>
  /\ accurateRate = NoRate
  /\ clock \in Clocks
  /\ \E d \in Distances :
       offer \in {[expiredTime |-> t, expiredOfferTime |-> clock + d] :
                   t \in {1, clock + d - 1, clock + d}}
  /\ timeout = NoTime
  /\ expiredAt = NoTime

NextTimer == TimerArm \/ TimerElapse

SpecTimer == InitTimer /\ [][NextTimer]_vars

\* ================================================================ properties

\* C1: when several accepts run on one PENDING transaction, exactly one is
\* told it succeeded, and that one is the assigned operator; the others are
\* rejected and change nothing.
C1_ExactlyOneAcceptSucceeds ==
  \A id \in TxIds :
    /\ Cardinality(accepted[id]) <= 1
    /\ \A u \in accepted[id] : txs[id].userId = u

\* C2: once EXPIRED is written for a transaction, no accept assigns an
\* operator to it, moves it to ACCEPTED, or is told it succeeded.
C2_NoAcceptAfterExpiry ==
  [][\A id \in TxIds :
       txs[id].status = "EXPIRED" =>
         /\ txs'[id].status # "ACCEPTED"
         /\ txs'[id].userId = txs[id].userId
         /\ accepted'[id] = accepted[id]]_vars

\* C3: when the expiry timer and an accept race on a PENDING transaction,
\* one of them wins: a fired timer leaves no PENDING row, an EXPIRED row has
\* no operator and no accept was told it succeeded, and an ACCEPTED row has
\* had no expiry callback sent.
C3_ExpiryXorAccept ==
  \A id \in TxIds :
    /\ timers[id] = "done" => txs[id].status # "PENDING"
    /\ txs[id].status = "EXPIRED" =>
         txs[id].userId = NoUser /\ accepted[id] = {}
    /\ txs[id].status = "ACCEPTED" => callbacks[id] = 0

\* C4: terminal states are absorbing: no step changes the status of a
\* COMPLETED, FAILED, EXPIRED or CANCELLED transaction.
C4_TerminalAbsorbing ==
  [][\A id \in TxIds :
       txs[id].status \in TerminalStatuses =>
         txs'[id].status = txs[id].status]_vars

\* C5: a proof is recorded, and a transaction completed, only when the
\* transaction is ACCEPTED and the uploader is its assigned operator.
C5_ProofOnlyByAssignedOperator ==
  [][/\ \A s \in screenshots' \ screenshots :
          /\ txs[s.transactionId].status = "ACCEPTED"
          /\ txs[s.transactionId].userId = s.userId
     /\ \A id \in TxIds :
          (txs[id].status # "COMPLETED" /\ txs'[id].status = "COMPLETED") =>
            /\ txs[id].status = "ACCEPTED"
            /\ \E s \in screenshots :
                 s.transactionId = id /\ s.userId = txs[id].userId]_vars

\* C6: an accept on an existing transaction that is not PENDING is answered
\* "stale", an accept on an id that does not resolve is answered "not
\* found", and the handler that gives either answer has written nothing.
C6_StaleAcceptRejected ==
  [][\A u \in Users :
       /\ (acc[u].pc = "idle" /\ acc'[u].pc # "idle") =>
            LET full == transactionMappings[ShortTxId(acc'[u].msg)] IN
              /\ full = NoId => acc'[u].reply = "notfound"
              /\ (full # NoId /\ txs[full].status \notin {"ABSENT", "PENDING"})
                   => acc'[u].reply = "stale"
              /\ (full # NoId /\ txs[full].status = "PENDING")
                   => acc'[u].reply = "none"
       /\ (acc[u].reply = "none" /\ acc'[u].reply \in {"stale", "notfound"}) =>
            /\ acc[u].pc \in {"idle", "checked"}
            /\ txs' = txs
            /\ screenshots' = screenshots
            /\ userStates' = userStates
            /\ accepted' = accepted
            /\ timers' = timers
            /\ callbacks' = callbacks]_vars

\* C6 happens: an accept pressed on an EXPIRED transaction is answered
\* "stale" by the first status check.
C6_Witness ==
  \E u \in Users :
    /\ acc[u].pc = "replied"
    /\ acc[u].reply = "stale"
    /\ acc[u].destination = ""
    /\ txs[acc[u].id].status = "EXPIRED"

\* C7: every transaction with a callback address that is in a terminal
\* state, with no handler under way, has had exactly one callback attempted.
C7_OneCallbackPerTerminal ==
  \A id \in TxIds :
    (/\ txs[id].status \in TerminalStatuses
     /\ txs[id].callbackUrl # ""
     /\ InFlight = 0) => callbacks[id] = 1

\* C8: a create call whose amount is outside [MIN, MAX], whose payment
\* method is not supported, whose availability deadline is not strictly
\* before its expiry deadline, or which has a non-positive timestamp, is
\* answered with the validation error and an empty id; it stores no row,
\* notifies no operator and arms no timer.
C8_InvalidCreateRejected ==
  \A k \in 1..MaxCalls :
    LET req == calls[k].req IN
      (/\ calls[k].pc # "idle"
       /\ \/ req.amount < MIN_PAYOUT_AMOUNT
          \/ req.amount > MAX_PAYOUT_AMOUNT
          \/ toLowerCase(req.walletId) \notin BANKS
          \/ ~(req.expiredTime < req.expiredOfferTime)
          \/ req.expiredTime <= 0
          \/ req.expiredOfferTime <= 0)
      => /\ calls[k].pc = "done"
         /\ calls[k].resp = [external_id |-> NoId, status |-> 2, code |-> 400]
         /\ calls[k].id = NoId
         /\ \A id \in generateUniqueId(k) :
              /\ txs[id] = NoTx
              /\ timers[id] = "none"
              /\ \A u \in Users : sent[<<u, id>>] = 0

\* C8 happens: a call with equal deadlines has been answered 400.
C8_Witness ==
  \E k \in 1..MaxCalls :
    /\ calls[k].pc = "done"
    /\ calls[k].req.expiredTime = calls[k].req.expiredOfferTime
    /\ calls[k].req.expiredTime > 0
    /\ calls[k].resp.code = 400

\* C9: a valid create call made when no operator is eligible stores the
\* row, notifies nobody and arms no timer; the row is PENDING until the
\* call moves it to FAILED, and the call is answered 503 with the id.
C9_NoOperatorsFails ==
  \A k \in 1..MaxCalls :
    LET c == calls[k] IN
      (/\ c.pc \in {"found", "done"}
       /\ RequestValid(c.req)
       /\ \A u \in Users :
            ~(users[u].isAdmin /\ users[u].balance >= c.req.amount))
      => /\ \A u \in Users : sent[<<u, c.id>>] = 0
         /\ timers[c.id] = "none"
         /\ c.pc = "found" => txs[c.id].status = "PENDING"
         /\ c.pc = "done" =>
              /\ txs[c.id].status = "FAILED"
              /\ c.resp = [external_id |-> c.id, status |-> 2, code |-> 503]

\* C9 happens: a call has been answered 503 and its row is FAILED.
C9_Witness ==
  \E k \in 1..MaxCalls :
    /\ calls[k].pc = "done"
    /\ calls[k].resp.code = 503
    /\ calls[k].operators = {}
    /\ txs[calls[k].id].status = "FAILED"

\* C10: a valid create call made when an operator is eligible stores
\* exactly one new row, which starts PENDING, arms exactly one timer, for
\* that row, and is answered with code 0 and the id of the row.
C10_ValidCreateSucceeds ==
  \A k \in 1..MaxCalls :
    LET c == calls[k] IN
      /\ c.pc = "inserted" =>
           txs[c.id].status = "PENDING" /\ timers[c.id] = "none"
      /\ (/\ c.pc = "done"
          /\ RequestValid(c.req)
          /\ \E u \in Users :
               users[u].isAdmin /\ users[u].balance >= c.req.amount)
         => /\ c.resp = [external_id |-> c.id, status |-> 1, code |-> 0]
            /\ \A id \in generateUniqueId(k) :
                 /\ (txs[id] # NoTx) <=> (id = c.id)
                 /\ (timers[id] # "none") <=> (id = c.id)

\* C10 happens: a call has been answered with code 0, its timer is armed
\* and its row is still PENDING.
C10_Witness ==
  \E k \in 1..MaxCalls :
    /\ calls[k].pc = "done"
    /\ calls[k].resp.code = 0
    /\ timers[calls[k].id] = "armed"
    /\ txs[calls[k].id].status = "PENDING"

\* C11: the expiry step changes a transaction to EXPIRED, and sends the
\* expiry callback, only when the transaction is PENDING at that moment; on
\* a transaction in any other state it changes nothing and sends nothing.
C11_ExpiryOnlyFromPending ==
  [][\A id \in TxIds :
       /\ (txs'[id].status = "EXPIRED" /\ txs[id].status # "EXPIRED")
            => txs[id].status = "PENDING"
       /\ callbacks'[id] # callbacks[id] => txs[id].status = "PENDING"]_vars

\* C12: a cancel sets a transaction to CANCELLED only when its state is
\* PENDING or ACCEPTED; a cancel aimed at a COMPLETED, FAILED or EXPIRED
\* transaction leaves its state unchanged.
C12_CancelOnlyNonTerminal ==
  [][\A id \in TxIds :
       (txs'[id].status = "CANCELLED" /\ txs[id].status # "CANCELLED")
         => txs[id].status \in {"PENDING", "ACCEPTED"}]_vars

\* C13: the happy path, step by step: a created row is PENDING; the accept
\* of operator u leaves it ACCEPTED with u assigned and the destination
\* set; the upload of u leaves it COMPLETED with a proof record of u; a
\* status query on a COMPLETED row reports status 2 and amountPaid equal to
\* the amount of the create request.
C13_HappyPath ==
  [][/\ \A k \in 1..MaxCalls :
          (calls[k].pc = "idle" /\ calls'[k].pc = "inserted") =>
            /\ txs'[calls'[k].id].status = "PENDING"
            /\ txs'[calls'[k].id].amount = calls'[k].req.amount
     /\ \A u \in Users :
          /\ (acc[u].pc = "inTx" /\ acc'[u].pc = "committed") =>
               /\ txs'[acc[u].id].status = "ACCEPTED"
               /\ txs'[acc[u].id].userId = u
               /\ txs'[acc[u].id].destination # ""
               /\ \A k \in 1..MaxCalls : calls[k].id = acc[u].id =>
                    txs'[acc[u].id].destination = calls[k].req.destination
          /\ \A n \in 1..MaxUploads :
               (upl[u][n].pc = "created" /\ upl'[u][n].pc = "updated") =>
                 /\ txs'[upl[u][n].id].status = "COMPLETED"
                 /\ \E s \in screenshots' :
                      s.transactionId = upl[u][n].id /\ s.userId = u
     /\ (/\ qry = NoQuery
         /\ qry' # NoQuery
         /\ txs[qry'.clientUniqueId].status = "COMPLETED") =>
          /\ qry'.status = 2
          /\ qry'.code = 0
          /\ qry'.screenshot # NoId
          /\ \A k \in 1..MaxCalls : calls[k].id = qry'.clientUniqueId =>
               qry'.amountPaid = calls[k].req.amount]_vars

\* C13 happens: a transaction of amount 500 was accepted by op1 alone,
\* op1's proof is recorded, the row is COMPLETED and a status query reports
\* it completed with amountPaid 500.
C13_Witness ==
  \E id \in TxIds :
    /\ txs[id].status = "COMPLETED"
    /\ txs[id].userId = "op1"
    /\ txs[id].amount = 500
    /\ accepted[id] = {"op1"}
    /\ \E s \in screenshots : s.transactionId = id /\ s.userId = "op1"
    /\ callbacks[id] = 0
    /\ qry.clientUniqueId = id
    /\ qry.status = 2
    /\ qry.amountPaid = 500

\* C14: a status query on a stored transaction reports amountPaid equal to
\* the amount exactly when the state is COMPLETED and 0 otherwise, status 1
\* for PENDING and ACCEPTED, 2 for COMPLETED, 3 for FAILED, EXPIRED and
\* CANCELLED, and changes nothing in the store or the bot.
C14_StatusQueryReports ==
  [][(qry = NoQuery /\ qry' # NoQuery
        /\ txs[qry'.clientUniqueId].status # "ABSENT") =>
       LET tx == txs[qry'.clientUniqueId] IN
         /\ (qry'.amountPaid = tx.amount) <=> (tx.status = "COMPLETED")
         /\ tx.status # "COMPLETED" => qry'.amountPaid = 0
         /\ tx.status \in {"PENDING", "ACCEPTED"} => qry'.status = 1
         /\ tx.status = "COMPLETED" => qry'.status = 2
         /\ tx.status \in {"FAILED", "EXPIRED", "CANCELLED"} => qry'.status = 3
         /\ txs' = txs
         /\ screenshots' = screenshots
         /\ users' = users
         /\ timers' = timers
         /\ userStates' = userStates
         /\ transactionMappings' = transactionMappings
         /\ callbacks' = callbacks]_vars

\* C14 happens: a status query on a CANCELLED transaction is answered with
\* status 3 and amountPaid 0.
C14_Witness ==
  /\ qry # NoQuery
  /\ qry.code = 0
  /\ txs[qry.clientUniqueId].status = "CANCELLED"
  /\ qry.status = 3
  /\ qry.amountPaid = 0
  /\ qry.amount > 0

\* C15: an accept whose short id does not resolve to the transaction the
\* pressed message was sent for (mapping lost at a restart, or two
\* transactions with the same first characters) is answered "not found"
\* and works on no transaction.
C15_UnresolvedShortIdNotFound ==
  \A u \in Users :
    acc[u].pc # "idle" =>
      \/ acc[u].id = acc[u].msg
      \/ acc[u].id = NoId /\ acc[u].reply = "notfound"

\* C16: a cycle in which no source succeeds ends in its own catch block and
\* writes nothing: the stored rows and the cache entry are what they were.
C16_ZeroSourcesWritesNothing ==
  [][\A c \in 1..MaxCycles :
       (/\ cycle[c].pc = "fetching"
        /\ \A i \in 1..Len(Fetchers) : cycle[c].results[i].status = "rejected"
        /\ cycle'[c] # cycle[c]
        /\ cycle'[c] # IdleCycle("none"))
       => /\ cycle'[c] = IdleCycle("noRates")
          /\ exchangeRates' = exchangeRates
          /\ cache' = cache]_vars

\* C16 happens: a cycle with no successful source has ended while a rate
\* is stored and cached.
C16_Witness ==
  /\ cycle[1] = IdleCycle("noRates")
  /\ exchangeRates # {}
  /\ cache # NoRate

\* C17: the stored consensus rate and the cached rate are never zero and
\* never NaN.
C17_RateNeverZeroOrNaN ==
  /\ cache \notin {0, NaN}
  /\ \A row \in exchangeRates : row.rate \notin {0, NaN}

\* C18: calculateAccurateRate returns the median of its samples: the middle
\* one in ascending order for an odd count, the average of the two middle
\* ones for an even count ([10, 12, 14] gives 12, [10, 12] gives 11),
\* whatever the order of the samples.
C18_ConsensusIsMedian ==
  /\ calculateAccurateRate(<<1000, 1200, 1400>>) = 1200
  /\ calculateAccurateRate(<<1000, 1200>>) = 1100
  /\ accurateRate # NoRate =>
       LET n == Len(rates)
           Below(v) == Cardinality({i \in 1..n : rates[i] < v})
           UpTo(v) == Cardinality({i \in 1..n : rates[i] <= v})
           Kth(k) == CHOOSE v \in {rates[i] : i \in 1..n} :
                       Below(v) < k /\ k <= UpTo(v)
           median == IF n % 2 = 1 THEN Kth((n + 1) \div 2)
                     ELSE (Kth(n \div 2) + Kth(n \div 2 + 1)) \div 2
       IN /\ accurateRate = median
          /\ \A p \in Permutations(1..n) :
               calculateAccurateRate([i \in 1..n |-> rates[p[i]]])
                 = accurateRate

\* C18 happens: the array [10, 12, 14], in some order, was handed over and
\* 12 came back.
C18_Witness ==
  /\ rates = <<1000, 1200, 1400>>
  /\ accurateRate = 1200

\* C19: a cycle in which at least one source succeeds (its call returns a
\* price) writes, to the store and then to the cache, the consensus of
\* exactly the successful samples; the other sources are left out.
C19_FailedSourcesExcluded ==
  [][\A c \in 1..MaxCycles :
       LET this == cycle[c] IN
       /\ (/\ this.pc = "fetching"
           /\ \A i \in 1..Len(Fetchers) : this.results[i].status # "pending"
           /\ \E i \in 1..Len(Fetchers) :
                /\ this.results[i].status = "fulfilled"
                /\ this.results[i].value # NaN
           /\ cycle'[c] # this
           /\ cycle'[c] # IdleCycle("none"))
          => LET ok == {i \in 1..Len(Fetchers) :
                          /\ this.results[i].status = "fulfilled"
                          /\ this.results[i].value # NaN}
                 consensus ==
                   IF Cardinality(ok) = 1
                     THEN this.results[CHOOSE i \in ok : TRUE].value
                     ELSE Half(Plus(this.results[1].value,
                                    this.results[2].value))
             IN /\ cycle'[c].pc = "upserted"
                /\ cycle'[c].accurateRate = consensus
                /\ \E row \in exchangeRates' :
                     HasKey(row, CombinedKey) /\ row.rate = consensus
       /\ (/\ this.pc = "upserted"
           /\ cycle'[c] # this
           /\ cycle'[c] # IdleCycle("none"))
          => cache' = this.accurateRate]_vars

\* C20: a rate read starts no source query and changes neither the cache
\* nor the store; it answers with the cached rate when the entry is there,
\* otherwise with the stored rate, otherwise with 404.
C20_RateReadServesCacheOrStore ==
  [][(rateResp' # rateResp /\ rateResp'.pc # "idle") =>
       /\ cycle' = cycle
       /\ cache' = cache
       /\ exchangeRates' = exchangeRates
       /\ rateResp.pc = "idle" =>
            IF cache # NoRate
              THEN rateResp' = [pc |-> "done", code |-> 200, rate |-> cache]
              ELSE rateResp'.pc = "miss"
       /\ rateResp.pc = "miss" =>
            IF \E row \in exchangeRates : row.from = "USDT" /\ row.to = "RUB"
              THEN \E row \in exchangeRates :
                     /\ row.from = "USDT" /\ row.to = "RUB"
                     /\ rateResp' =
                          [pc |-> "done", code |-> 200, rate |-> row.rate]
              ELSE rateResp' = [pc |-> "done", code |-> 404, rate |-> NoRate]]_vars

\* C20 happens: with the cache entry gone, a read is answered with the
\* stored rate.
C20_Witness ==
  /\ rateResp.pc = "done"
  /\ rateResp.code = 200
  /\ cache = NoRate
  /\ \A c \in 1..MaxCycles : cycle[c].pc = "idle"
  /\ \E row \in exchangeRates : row.rate = rateResp.rate

\* C21: a cached rate has been given a time to live strictly shorter than
\* the default polling interval of the aggregation.
C21_CacheTtlShorterThanInterval ==
  cache # NoRate => CACHE_TTL < RATE_UPDATE_INTERVAL

\* C22: there is at most one stored row for (USDT, RUB, COMBINED); the
\* upsert of a cycle leaves that row holding the cycle's consensus, and no
\* other step changes the stored rows, so the row holds what the latest
\* successful cycle wrote.
C22_OneCombinedRow ==
  [][/\ Cardinality({row \in exchangeRates' : HasKey(row, CombinedKey)}) <= 1
     /\ \A c \in 1..MaxCycles :
          (cycle[c].pc = "fetching" /\ cycle'[c].pc = "upserted") =>
            /\ \E row \in exchangeRates' : HasKey(row, CombinedKey)
            /\ \A row \in exchangeRates' :
                 HasKey(row, CombinedKey) => row.rate = cycle'[c].accurateRate
     /\ (\A c \in 1..MaxCycles :
           ~(cycle[c].pc = "fetching" /\ cycle'[c].pc = "upserted"))
          => exchangeRates' = exchangeRates]_vars

\* C22 happens: two cycles overlap; the first has stored 10 and the second
\* then stored 12 over it, and the single row holds 12.
C22_Witness ==
  /\ cycle[1].pc = "upserted"
  /\ cycle[1].accurateRate = 1000
  /\ cycle[2].pc = "upserted"
  /\ cycle[2].accurateRate = 1200
  /\ exchangeRates =
       {[from |-> "USDT", to |-> "RUB", source |-> "COMBINED", rate |-> 1200]}

\* C23: a notification send that fails during dispatch is logged and
\* changes no transaction; the loop goes on with the remaining operators,
\* and the call ends with every eligible operator attempted once, the timer
\* armed, the transaction untouched and the success response.
C23_NotifyFailureIsolated ==
  [][\A k \in 1..MaxCalls :
       LET c == calls[k] IN
         /\ \A u \in Users :
              (<<"sendPayoutRequest", u, c.id>> \in logged' \ logged) =>
                /\ txs' = txs
                /\ calls'[k].pc = "found"
                /\ calls'[k].pending = c.pending \ {u}
         /\ (c.pc = "found" /\ c.operators # {} /\ calls'[k].pc = "done") =>
              /\ calls'[k].resp = [external_id |-> c.id, status |-> 1, code |-> 0]
              /\ timers'[c.id] = "armed"
              /\ txs' = txs
              /\ \A u \in Users :
                   (users[u].isAdmin /\ users[u].balance >= c.req.amount)
                     => sent[<<u, c.id>>] = 1]_vars

\* C23 happens: the send to op1 failed, the send to op2 was delivered, and
\* the call was answered with success, its timer armed and its row PENDING.
C23_Witness ==
  \E k \in 1..MaxCalls :
    LET c == calls[k] IN
      /\ c.pc = "done"
      /\ c.resp.code = 0
      /\ <<"sendPayoutRequest", "op1", c.id>> \in logged
      /\ <<"op2", c.id>> \in buttons
      /\ sent[<<"op1", c.id>>] = 1
      /\ sent[<<"op2", c.id>>] = 1
      /\ timers[c.id] = "armed"
      /\ txs[c.id].status = "PENDING"

\* C24: dispatch attempts at most one notification to a user, none to a
\* user who is not an operator with a balance of at least the amount, and
\* when the loop is over exactly one to every user who is.
C24_OneNotificationPerEligible ==
  \A k \in 1..MaxCalls :
    LET c == calls[k] IN
      c.id # NoId =>
        \A u \in Users :
          LET due == IF users[u].isAdmin /\ users[u].balance >= c.req.amount
                       THEN 1 ELSE 0
          IN /\ sent[<<u, c.id>>] <= due
             /\ (c.pc = "done" /\ c.resp.code = 0) => sent[<<u, c.id>>] = due

\* C24 happens: a call for 500 has ended with op1 notified once, and with no
\* notification to op2, whose balance is 100, or to guest, who is no
\* operator.
C24_Witness ==
  \E k \in 1..MaxCalls :
    LET c == calls[k] IN
      /\ c.pc = "done"
      /\ c.resp.code = 0
      /\ c.req.amount = 500
      /\ sent[<<"op1", c.id>>] = 1
      /\ sent[<<"op2", c.id>>] = 0
      /\ sent[<<"guest", c.id>>] = 0

C26_OperatorSetOnceOnAccept ==
  [][\A id \in TxIds :
       /\ txs'[id].userId # txs[id].userId =>
            /\ txs[id].status = "PENDING"
            /\ txs'[id].status = "ACCEPTED"
       /\ txs[id].userId # NoUser => txs'[id].userId = txs[id].userId]_vars

\* C27: a transaction in ACCEPTED state has an assigned operator.
C27_AcceptedHasOperator ==
  \A id \in TxIds : txs[id].status = "ACCEPTED" => txs[id].userId # NoUser

\* C27 happens: a transaction is ACCEPTED, assigned to op2, with its accept
\* handler between the store transaction and its reply.
C27_Witness ==
  \E id \in TxIds :
    /\ txs[id].status = "ACCEPTED"
    /\ txs[id].userId = "op2"
    /\ acc["op2"].pc = "committed"
    /\ acc["op2"].id = id

\* C28: a transaction has at most one Screenshot row, also when its
\* operator sends several photo messages whose handlers interleave.
C28_OneProofPerTransaction ==
  \A id \in TxIds :
    Cardinality({s \in screenshots : s.transactionId = id}) <= 1

\* C28 happens: two photo messages of the assigned operator were handled at
\* once; one handler has inserted the row and not yet completed the
\* transaction, the insert of the other was refused, both files are on disk
\* and there is one row.
C28_Witness ==
  \E u \in Users, id \in TxIds :
    /\ txs[id].userId = u
    /\ txs[id].status = "ACCEPTED"
    /\ \E n \in 1..MaxUploads : upl[u][n].pc = "created" /\ upl[u][n].id = id
    /\ <<"screenshot.create", u, id>> \in logged
    /\ {<<1, id>>, <<2, id>>} \subseteq files
    /\ Cardinality({s \in screenshots : s.transactionId = id}) = 1

\* C30: a proof read serves the file only when a Screenshot row has the
\* requested name as its path and belongs to the transaction whose id the
\* name embeds; every other request is answered with an error and no
\* content, and no request changes the store or the files.
C30_ProofServedOnlyWithRecord ==
  [][(shot = NoShot /\ shot' # NoShot) =>
       LET name == shot'.filename IN
         /\ shot'.served <=>
              \E s \in screenshots :
                s.path = name /\ s.transactionId = name[2] /\ name[2] # NoId
         /\ shot'.served => shot'.code = 200
         /\ ~shot'.served => shot'.code \in {400, 404}
         /\ screenshots' = screenshots
         /\ files' = files
         /\ txs' = txs]_vars

\* C30 happens: a transaction has its row for the first file; a read of the
\* second file written for it, which is on disk and has no row, was
\* answered 404 without content.
C30_Witness ==
  \E id \in TxIds :
    /\ shot.filename = <<2, id>>
    /\ shot.filename \in files
    /\ \E s \in screenshots : s.transactionId = id /\ s.path = <<1, id>>
    /\ shot.code = 404
    /\ ~shot.served

\* C29: a create call whose insert of the PENDING row throws, or whose
\* update to FAILED throws, is answered with the internal error (500,
\* external_id "") and not with success; no call is answered with success
\* without its row in the store.
C29_StoreFailureIsInternalError ==
  [][\A k \in 1..MaxCalls :
       (calls[k].pc # "done" /\ calls'[k].pc = "done") =>
         LET c == calls'[k]
             error == [external_id |-> NoId, status |-> 2, code |-> 500]
         IN /\ (RequestValid(c.req) /\ c.id = NoId) => c.resp = error
            /\ (/\ calls[k].pc = "found"
                /\ calls[k].operators = {}
                /\ txs'[c.id].status # "FAILED") => c.resp = error
            /\ c.resp.code = 0 =>
                 c.id # NoId /\ txs'[c.id] # NoTx /\ c.resp.external_id = c.id
            /\ c.resp = error => txs' = txs]_vars

\* C29 happens: the insert of the first call threw and the update to
\* FAILED of the second call threw; both calls were answered 500, the first
\* left no row and the second left its row PENDING.
C29_Witness ==
  /\ calls[1].pc = "done"
  /\ calls[1].id = NoId
  /\ <<"transaction.create", NoUser, NoId>> \in logged
  /\ calls[1].resp.code = 500
  /\ calls[2].pc = "done"
  /\ calls[2].id # NoId
  /\ <<"transaction.update", NoUser, calls[2].id>> \in logged
  /\ calls[2].resp.code = 500
  /\ calls[2].resp.external_id = NoId
  /\ txs[calls[2].id].status = "PENDING"
  /\ \A id \in TxIds : txs[id] # NoTx => id = calls[2].id

\* C31: the mapping holds one full id per short id, the one of the last
\* notification delivered for it. When dispatched transactions share
\* their first 11 characters and the mapping has not been lost, a press of
\* the accept button sent for an earlier one is handled as an accept of
\* the last one recorded, with no "not found" reply, and the update of
\* that accept writes that one's row and no other.
C31_ShortIdCollisionRoutesToLater ==
  [][/\ \A k \in 1..MaxCalls, u \in Users :
          (/\ calls[k].pc = "found"
           /\ u \in calls[k].pending
           /\ buttons' # buttons) =>
            transactionMappings'[ShortTxId(calls[k].id)] = calls[k].id
     /\ \A u \in Users, j \in 1..MaxCalls, k \in 1..MaxCalls :
          LET early == calls[j].id
              late == calls[k].id
              Recorded(m) ==
                /\ calls[m].id # NoId
                /\ ShortTxId(calls[m].id) = ShortTxId(early)
                /\ \E v \in Users :
                     /\ sent[<<v, calls[m].id>>] > 0
                     /\ <<"sendPayoutRequest", v, calls[m].id>> \notin logged
          IN (/\ acc[u].pc = "idle"
              /\ acc'[u].pc # "idle"
              /\ acc'[u].msg = early
              /\ j < k
              /\ Recorded(k)
              /\ \A m \in (k + 1)..MaxCalls : ~Recorded(m)
              /\ transactionMappings[ShortTxId(early)] # NoId) =>
               /\ acc'[u].id = late
               /\ acc'[u].reply # "notfound"
     /\ \A u \in Users :
          (acc[u].pc = "inTx" /\ acc'[u].pc = "committed") =>
            /\ txs'[acc[u].id].status = "ACCEPTED"
            /\ txs'[acc[u].id].userId = u
            /\ \A id \in TxIds \ {acc[u].id} : txs'[id] = txs[id]]_vars

\* C31 happens: two dispatched transactions share their short id; op1
\* pressed the button of the earlier one and was told "accepted"; the later
\* one is ACCEPTED with op1 assigned and the earlier one is still PENDING.
C31_Witness ==
  LET early == calls[1].id
      late == calls[2].id
  IN /\ late # NoId
     /\ ShortTxId(late) = ShortTxId(early)
     /\ acc["op1"].msg = early
     /\ acc["op1"].id = late
     /\ acc["op1"].reply = "accepted"
     /\ txs[late].status = "ACCEPTED"
     /\ txs[late].userId = "op1"
     /\ txs[early].status = "PENDING"
     /\ txs[early].userId = NoUser

\* C32: a restart loses the armed expiry timer and the whole short-id
\* mapping and writes nothing to the store; a PENDING transaction whose
\* timer was lost stays PENDING at every later step, its timer stays lost
\* and no short id resolves to it.
C32_RestartLeavesPendingForever ==
  [][\A id \in TxIds :
       /\ (timers[id] \in {"armed", "read"} /\ timers'[id] = "lost") =>
            /\ \A p \in Prefixes : transactionMappings'[p] = NoId
            /\ txs' = txs
       /\ (timers[id] = "lost" /\ txs[id].status = "PENDING") =>
            /\ txs'[id] = txs[id]
            /\ timers'[id] = "lost"
            /\ \A p \in Prefixes : transactionMappings'[p] # id]_vars

\* C32 happens: a dispatched transaction is PENDING and its timer was lost
\* in a restart; an operator who then pressed its accept button was told
\* "not found".
C32_Witness ==
  \E id \in TxIds, u \in Users :
    /\ timers[id] = "lost"
    /\ txs[id].status = "PENDING"
    /\ <<u, id>> \in buttons
    /\ acc[u].msg = id
    /\ acc[u].pc = "replied"
    /\ acc[u].reply = "notfound"

\* C33: the timer writes EXPIRED no earlier than the deadline stored as
\* expiresAt, for every pair of timestamps that passes validateTimes.
C33_NoExpiryBeforeDeadline ==
  expiredAt # NoTime => expiredAt >= offer.expiredOfferTime

\* C34: in a run with no restart, a transaction row that create has stored
\* and left PENDING when the call returned has its expiry timer armed (so
\* that it leaves PENDING at the latest when the timer fires), also when
\* the operator lookup or the update to FAILED threw.
C34_PendingHasArmedTimer ==
  \A k \in 1..MaxCalls :
    (/\ calls[k].pc = "done"
     /\ calls[k].id # NoId
     /\ txs[calls[k].id].status = "PENDING") =>
      timers[calls[k].id] \in {"armed", "read"}

\* C35: in a run with no restart and with no handler under way, the
\* operator assigned to an ACCEPTED transaction has the input-mode state
\* that awaits a screenshot for that transaction.
C35_AcceptedOperatorAwaitsProof ==
  \A id \in TxIds :
    (txs[id].status = "ACCEPTED" /\ InFlight = 0) =>
      userStates[txs[id].userId] = AwaitingScreenshot(id)

\* C36: every COMPLETED transaction has exactly one Screenshot row, and
\* the user of that row is the operator assigned to the transaction.
C36_CompletedHasOneProofOfOperator ==
  \A id \in TxIds :
    txs[id].status = "COMPLETED" =>
      /\ Cardinality({s \in screenshots : s.transactionId = id}) = 1
      /\ \A s \in screenshots :
           s.transactionId = id => s.userId = txs[id].userId

\* C37: the operator assigned to an ACCEPTED or COMPLETED transaction has
\* the role flag and was sent the notification of that transaction; a
\* press of the accept button by a user who was not sent the notification
\* of the transaction it resolves to ends in a rejection.
C37_AssignedOperatorWasNotified ==
  [][/\ \A id \in TxIds :
          txs'[id].status \in {"ACCEPTED", "COMPLETED"} =>
            /\ users'[txs'[id].userId].isAdmin
            /\ sent'[<<txs'[id].userId, id>>] > 0
     /\ \A u \in Users :
          (/\ acc[u].pc = "idle"
           /\ acc'[u].pc # "idle"
           /\ acc'[u].id # NoId
           /\ sent[<<u, acc'[u].id>>] = 0) =>
            acc'[u].reply \in {"stale", "notfound"}]_vars

\* C38: a photo or document message of a user whose state does not await
\* a screenshot for a transaction is dropped: the handler that takes it,
\* from its start to its return, changes no transaction, no Screenshot
\* row, no file and no user's input-mode state.
C38_UploadWithoutStateChangesNothing ==
  [][\A u \in Users, n \in 1..MaxUploads :
       /\ (/\ upl[u][n].pc = "idle"
           /\ upl'[u][n].pc # "idle"
           /\ ~(/\ userStates[u].awaitingScreenshot
                /\ userStates[u].currentTransactionId # NoId)) =>
            /\ upl'[u][n].pc = "dropped"
            /\ txs' = txs
            /\ screenshots' = screenshots
            /\ files' = files
            /\ userStates' = userStates
       /\ (upl[u][n].pc = "dropped" /\ upl'[u][n] # upl[u][n]) =>
            /\ upl'[u][n] = IdleHandler
            /\ txs' = txs
            /\ screenshots' = screenshots
            /\ files' = files
            /\ userStates' = userStates]_vars

\* C38 happens: op1 has opened the set-balance dialog while assigned to an
\* ACCEPTED transaction, and the photo op1 then sent was dropped.
C38_Witness ==
  \E id \in TxIds :
    /\ txs[id].status = "ACCEPTED"
    /\ txs[id].userId = "op1"
    /\ userStates["op1"] = AwaitingBalance
    /\ upl["op1"][1].pc = "dropped"
    /\ screenshots = {}

\* C39: the accept handler takes the callback data of every accept button:
\* a press by a notified operator on a PENDING transaction whose short id
\* resolves to it, with no other handler under way, gets to the store
\* transaction of handleAcceptPayout, whatever the destination.
C39_AcceptButtonRecognised ==
  [][\A u \in Users :
       (/\ acc[u].pc = "idle"
        /\ acc'[u].pc # "idle"
        /\ sent[<<u, acc'[u].msg>>] > 0
        /\ txs[acc'[u].msg].status = "PENDING"
        /\ transactionMappings[ShortTxId(acc'[u].msg)] = acc'[u].msg) =>
         /\ acc'[u].pc = "checked"
         /\ acc'[u].id = acc'[u].msg]_vars

\* C40: the update of an accept made through the "ap:" action writes the
\* status and the operator of its transaction and nothing else: the row's
\* destination is still the one of the create request in full, its amount,
\* payment method, deadline and callback address are unchanged, and so is
\* every other row.
C40_AcceptWritesOnlyStatusAndOperator ==
  [][\A u \in Users :
       (acc[u].pc = "inTx" /\ acc'[u].pc = "committed") =>
         LET id == acc[u].id IN
           /\ txs'[id] = [txs[id] EXCEPT !.status = "ACCEPTED", !.userId = u]
           /\ \A k \in 1..MaxCalls : calls[k].id = id =>
                txs'[id].destination = calls[k].req.destination
           /\ txs'[id].destination # shortDestination(txs'[id].destination)
           /\ \A other \in TxIds \ {id} : txs'[other] = txs[other]]_vars

\* C40 happens: op1's accept has committed on the transaction created for
\* 4276123456789012 with amount 100, and the row holds that destination in
\* full, the amount, the payment method and the callback address.
C40_Witness ==
  \E id \in TxIds :
    /\ acc["op1"].pc = "committed"
    /\ acc["op1"].id = id
    /\ acc["op1"].msg = id
    /\ txs[id] =
         [status |-> "ACCEPTED", userId |-> "op1",
          destination |-> "4276123456789012", amount |-> 100,
          paymentMethod |-> "sberbank", callbackUrl |-> "http://cb",
          expiresAt |-> 2000]

====
